---------------------------- MODULE Spec2Model ----------------------------
(***************************************************************************)
(* A model of the pit version control engine (src/pit-project).            *)
(*                                                                         *)
(* The repository is the state: HEAD, the branch refs, the index file      *)
(* (kept as its sequence of lines, because the commands parse and write    *)
(* those lines in two different ways), the working files, the commit       *)
(* objects, the stash log and the rebase state directory.  One action per  *)
(* command, translated from the command's code.                            *)
(*                                                                         *)
(* Blob hashes: a blob is named by its content (SHA-1 is taken to be       *)
(* collision free), so a blob hash is modelled by the content's number.    *)
(* Commit hashes: a commit object holds a timestamp, so every commit       *)
(* written is a new object; its hash is modelled by its position in the    *)
(* store.  Paths have no directory part, so a tree is a flat map.          *)
(***************************************************************************)
EXTENDS Integers, Sequences, FiniteSets, TLC

VARIABLES
    HEAD,       \* .pit/HEAD: [ref |-> branch name or "", hash |-> commit or 0]
    refs,       \* .pit/refs/heads/<name>: NoFile, 0 (empty file) or a commit
    index,      \* .pit/index: the sequence of its lines
    wd,         \* working files: path -> content, Absent when there is no file
    commits,    \* the commit objects of the store, in the order written
    stash,      \* .pit/logs/stash: the sequence of its lines
    rebase,     \* .pit/rebase-apply/: [active, headName, origHead, commits]
    blobs,      \* .pit/objects: the blob objects stored, by hash
    objects,    \* .pit/objects as files: the set of [name, data] written by hash_object
    tags,       \* .pit/refs/tags/<name>: NoFile or a commit
    MERGE_HEAD, \* .pit/MERGE_HEAD: NoFile or the commit it holds
    writers,    \* the calls of hash_object under way: process -> how far it got
    user,       \* the [user] section of the config: are name and email set
    last,       \* the command that led to this state and how it ended
    snap,       \* index and working files as they were before the last stash push
    steps       \* number of commands and edits so far

vars == <<HEAD, refs, index, wd, commits, stash, rebase, blobs, objects, tags, MERGE_HEAD, writers, user, last, snap, steps>>

---------------------------------------------------------------------------
(* Bounds and input sets *)

MaxSteps == 3

\* The largest number of commits in the commit graphs drawn for the
\* common-ancestor search.
MaxCommits == 4

\* Paths in Python's string order (sorted() of the path names).
PathSeq == <<"a", "b">>
Paths == {PathSeq[i] : i \in DOMAIN PathSeq}
PathRank(p) == CHOOSE i \in DOMAIN PathSeq : PathSeq[i] = p

\* Contents a user writes into a file.
Blobs == {1, 2}
Absent == 0
NoBlob == 0

Branches == {"master", "feature", "topic"}
Tags == {"v1"}
NoFile == -1
None == 0

\* An index line.  stat = Legacy: the two-field line "<hash> <path>";
\* stat = ZeroStat: "<hash> 0 0 <path>"; stat = RealStat: "<hash> <mtime_ns> <size> <path>".
Legacy == 0
ZeroStat == 1
RealStat == 2

Line(h, s, p) == [hash |-> h, stat |-> s, path |-> p]

RECURSIVE SeqByRank(_, _)
\* sorted(): the elements of S in increasing rank (rank is a function on S).
SeqByRank(S, rank) ==
    IF S = {} THEN <<>>
    ELSE LET m == CHOOSE x \in S : \A y \in S : rank[x] <= rank[y]
         IN  <<m>> \o SeqByRank(S \ {m}, rank)

Range(s) == {s[i] : i \in DOMAIN s}

---------------------------------------------------------------------------
(* utils/objects.py: blobs *)

\* hash_object(content, 'blob'): the name of the blob holding this content.
hash_object(content) == content

\* read_object(blob): the content stored under a blob hash.
read_object(h) == h

\* The text _create_conflict_file writes: the two sides between markers.  An
\* injective pairing of (ours, theirs), NoBlob standing for the sentinel line,
\* kept apart from the contents in Blobs.
ConflictText(o, t) == 100 + ((o + t) * (o + t + 1)) \div 2 + t

---------------------------------------------------------------------------
(* utils/objects.py: the object files, byte by byte *)

\* The bytes that the object format gives a meaning to, and one other byte.
NUL == 0
SP == 32
OtherByte == 65
Bytes == {NUL, SP, OtherByte}

\* The longest payload drawn.
MaxLen == 1

Payloads == UNION {[1..n -> Bytes] : n \in 0..MaxLen}

Kinds == {"blob", "tree", "commit"}

\* The header is text.  A kind's name and the decimal length are runs of
\* characters that hold no space and no NUL: each is one symbol here, kept
\* apart from the bytes.
KindWord(k) == CASE k = "blob" -> 301 [] k = "tree" -> 302 [] k = "commit" -> 303
WordKind(w) == CHOOSE k \in Kinds : KindWord(k) = w
LenWord(n) == 400 + n

\* f'{obj_type} {len(content)}\0'.encode() + content
ObjectData(content, obj_type) ==
    <<KindWord(obj_type), SP, LenWord(Len(content)), NUL>> \o content

\* hashlib.sha1(data).hexdigest(): collision free, so the data names itself.
sha1(data) == data

\* zlib.compress and zlib.decompress.
compress(data) == [deflated |-> data]
decompress(file) == file.deflated

\* open(object_path, 'wb').write(...): the file of that name now holds data.
WriteObjectFile(store, name, data) ==
    {f \in store : f.name # name} \cup {[name |-> name, data |-> data]}

\* hash_object(repo_root, content, obj_type, write): the store afterwards and
\* the name returned.
hash_object_bytes(store, content, obj_type, write) ==
    LET data == ObjectData(content, obj_type)
        name == sha1(data)
    IN  [store |-> IF write THEN WriteObjectFile(store, name, compress(data))
                   ELSE store,
         sha1 |-> name]

\* data.find(b'\0'): the position of the first NUL, counted from 1; 0 stands
\* for Python's -1 when there is none.
FirstNul(data) ==
    IF \E i \in DOMAIN data : data[i] = NUL
    THEN CHOOSE i \in DOMAIN data :
             data[i] = NUL /\ \A j \in 1..(i - 1) : data[j] # NUL
    ELSE 0

\* A variant of FirstNul: data.rfind(b'\0').
LastNul(data) ==
    IF \E i \in DOMAIN data : data[i] = NUL
    THEN CHOOSE i \in DOMAIN data :
             data[i] = NUL /\ \A j \in (i + 1)..Len(data) : data[j] # NUL
    ELSE 0

RECURSIVE SplitOn(_, _)
\* header.split(' '): the fields between the separators.
SplitOn(s, sep) ==
    IF \A i \in DOMAIN s : s[i] # sep THEN <<s>>
    ELSE LET i == CHOOSE k \in DOMAIN s :
                      s[k] = sep /\ \A j \in 1..(k - 1) : s[j] # sep
         IN  <<SubSeq(s, 1, i - 1)>> \o SplitOn(SubSeq(s, i + 1, Len(s)), sep)

NotFound == [err |-> "FileNotFoundError"]
BadHeader == [err |-> "ValueError"]

\* The object read when the header ends at position idx of the data.
ParseObject(data, idx) ==
    LET header  == IF idx = 0 THEN SubSeq(data, 1, Len(data) - 1)
                   ELSE SubSeq(data, 1, idx - 1)
        content == SubSeq(data, idx + 1, Len(data))
        fields  == SplitOn(header, SP)
    IN  IF Len(fields) = 2 /\ Len(fields[1]) = 1
           /\ \E k \in Kinds : KindWord(k) = fields[1][1]
        THEN [type |-> WordKind(fields[1][1]), content |-> content]
        ELSE BadHeader

\* A variant of read_object_bytes that takes the header up to the last NUL.
read_object_bytes_rfind(store, name) ==
    IF ~\E f \in store : f.name = name THEN NotFound
    ELSE LET file == CHOOSE f \in store : f.name = name
             data == decompress(file.data)
         IN  ParseObject(data, LastNul(data))

\* read_object(repo_root, sha1): the (type, content) stored under the name.
read_object_bytes(store, name) ==
    IF ~\E f \in store : f.name = name THEN NotFound
    ELSE LET file == CHOOSE f \in store : f.name = name
             data == decompress(file.data)
         IN  ParseObject(data, FirstNul(data))

\* hash_object step by step, as another process sees the object file:
\* open(object_path, 'wb') leaves an empty file of that name, the write
\* brings the compressed data in MaxChunks pieces, and the file is whole
\* when the last piece is there.
MaxChunks == 1
Procs == {"p1", "p2"}
Idle == [at |-> "idle", data |-> <<>>, off |-> 0]
NoWriters == [w \in Procs |-> Idle]
WholeFile(name, data) == [name |-> name, data |-> data, chunks |-> 1..MaxChunks]
OpenForWriting(store, name, data) ==
    {f \in store : f.name # name} \cup {[name |-> name, data |-> data, chunks |-> {}]}
WriteChunk(store, name, pos) ==
    {IF f.name = name THEN [f EXCEPT !.chunks = @ \cup {pos}] ELSE f : f \in store}

\* read_object on a file that may be under way: zlib.decompress raises
\* zlib.error on an empty or incomplete stream.
ZlibError == [err |-> "zlib.error"]
read_object_racing(store, name) ==
    IF \E f \in store : f.name = name /\ f.chunks # 1..MaxChunks THEN ZlibError
    ELSE read_object_bytes(store, name)


---------------------------------------------------------------------------
(* utils/objects.py: nested trees, as text *)

TAB == 9
NL == 10
Slash == 47

\* File and directory names as their characters: "a", "b" and a name that
\* holds a tab.
Names == {<<97>>, <<98>>, <<97, TAB, 98>>}

\* The deepest path and the most index entries drawn.
MaxDepth == 2
MaxEntries == 2

RECURSIVE JoinWith(_, _)
\* sep.join(parts)
JoinWith(parts, sep) ==
    IF parts = <<>> THEN <<>>
    ELSE IF Len(parts) = 1 THEN parts[1]
    ELSE parts[1] \o <<sep>> \o JoinWith(Tail(parts), sep)

\* The paths of the working files, as text.
TreePaths == {JoinWith(parts, Slash) : parts \in UNION {[1..n -> Names] : n \in 1..MaxDepth}}

\* Python's order on strings: by the first character that differs, a proper
\* prefix first.
StrLess(x, y) ==
    \/ Len(x) < Len(y) /\ SubSeq(y, 1, Len(x)) = x
    \/ \E i \in 1..Len(x) :
          /\ i <= Len(y)
          /\ SubSeq(x, 1, i - 1) = SubSeq(y, 1, i - 1)
          /\ x[i] < y[i]

RECURSIVE SortedStrs(_)
\* sorted(S) for a set of strings.
SortedStrs(S) ==
    IF S = {} THEN <<>>
    ELSE LET m == CHOOSE x \in S : \A y \in S \ {x} : StrLess(x, y)
         IN  <<m>> \o SortedStrs(S \ {m})

\* A 40-digit blob hash is one symbol; so is a file mode.
BlobHashes == {501, 502}
ModeDir == 601
ModeFile == 602

\* A value of the nested dictionary: a hash string, or a dictionary.
BlobValue(h) == [kind |-> "blob", hash |-> h, sub |-> <<>>]
TreeValue(d) == [kind |-> "tree", hash |-> 0, sub |-> d]

DictPut(d, k, v) == [x \in DOMAIN d \cup {k} |-> IF x = k THEN v ELSE d[x]]

RECURSIVE TreeInsert(_, _, _)
\* The loop body of build_tree_from_index for one line: setdefault down the
\* directory parts, then the assignment of the hash.  ok is FALSE when a
\* directory part finds a hash string where it needs a dictionary (the
\* TypeError or AttributeError Python raises).
TreeInsert(d, parts, h) ==
    IF Len(parts) = 1 THEN [ok |-> TRUE, tree |-> DictPut(d, parts[1], BlobValue(h))]
    ELSE LET n == parts[1]
         IN  IF n \in DOMAIN d /\ d[n].kind = "blob" THEN [ok |-> FALSE, tree |-> d]
             ELSE LET sub == IF n \in DOMAIN d THEN d[n].sub ELSE <<>>
                      in  == TreeInsert(sub, Tail(parts), h)
                  IN  IF in.ok THEN [ok |-> TRUE, tree |-> DictPut(d, n, TreeValue(in.tree))]
                      ELSE [ok |-> FALSE, tree |-> d]

RECURSIVE BuildLoop(_, _)
BuildLoop(lines, d) ==
    IF lines = <<>> THEN [ok |-> TRUE, tree |-> d]
    ELSE LET in == TreeInsert(d, SplitOn(lines[1].path, Slash), lines[1].hash)
         IN  IF in.ok THEN BuildLoop(Tail(lines), in.tree) ELSE in

\* build_tree_from_index for an index whose paths have directory parts.
build_nested_tree(idx) == BuildLoop(idx, <<>>)

\* The tree objects of the store, in the order written; a tree's hash is its
\* position, equal contents having the same hash.
TreeHashBase == 1000
StoreTree(store, content) ==
    IF \E i \in DOMAIN store : store[i] = content
    THEN [store |-> store,
          sha1 |-> TreeHashBase + (CHOOSE i \in DOMAIN store : store[i] = content)]
    ELSE [store |-> Append(store, content), sha1 |-> TreeHashBase + Len(store) + 1]

\* f"{mode} {entry_type} {sha1}\t{name}"
TreeEntry(mode, entry_type, h, name) ==
    <<mode, SP, KindWord(entry_type), SP, h, TAB>> \o name

RECURSIVE write_tree(_, _), WriteEntries(_, _, _, _)
\* write_tree: the store afterwards and the hash of the tree written.
write_tree(store, d) ==
    LET done == WriteEntries(store, d, SortedStrs(DOMAIN d), <<>>)
    IN  StoreTree(done.store, JoinWith(done.entries, NL))

\* The loop of write_tree over sorted(tree_dict.items()).
WriteEntries(store, d, names, entries) ==
    IF names = <<>> THEN [store |-> store, entries |-> entries]
    ELSE LET name == names[1]
         IN  IF d[name].kind = "tree"
             THEN LET w == write_tree(store, d[name].sub)
                  IN  WriteEntries(w.store, d, Tail(names),
                          Append(entries, TreeEntry(ModeDir, "tree", w.sha1, name)))
             ELSE WriteEntries(store, d, Tail(names),
                      Append(entries, TreeEntry(ModeFile, "blob", d[name].hash, name)))

\* content.splitlines()
SplitLines(content) == IF content = <<>> THEN <<>> ELSE SplitOn(content, NL)

RECURSIVE SplitMax(_, _, _)
\* s.split(sep, maxsplit)
SplitMax(s, sep, maxsplit) ==
    IF maxsplit = 0 \/ \A i \in DOMAIN s : s[i] # sep THEN <<s>>
    ELSE LET i == CHOOSE k \in DOMAIN s :
                      s[k] = sep /\ \A j \in 1..(k - 1) : s[j] # sep
         IN  <<SubSeq(s, 1, i - 1)>>
                 \o SplitMax(SubSeq(s, i + 1, Len(s)), sep, maxsplit - 1)

\* line.replace('\t', ' ')
ReplaceTab(line) == [i \in DOMAIN line |-> IF line[i] = TAB THEN SP ELSE line[i]]

\* os.path.join(path_prefix, name)
PathJoin(prefix, name) == IF prefix = <<>> THEN name ELSE prefix \o <<Slash>> \o name

RECURSIVE read_tree_recursive(_, _, _, _), ReadLines(_, _, _, _)
\* read_tree_recursive: the files dictionary after reading the tree tree_sha
\* under path_prefix; ok is FALSE when the object is not a tree of the store
\* or a line does not unpack into four fields.
read_tree_recursive(store, tree_sha, path_prefix, files) ==
    IF tree_sha - TreeHashBase \notin DOMAIN store THEN [ok |-> FALSE, files |-> files]
    ELSE ReadLines(store, SplitLines(store[tree_sha - TreeHashBase]), path_prefix, files)

ReadLines(store, lines, path_prefix, files) ==
    IF lines = <<>> THEN [ok |-> TRUE, files |-> files]
    ELSE LET fields == SplitMax(ReplaceTab(lines[1]), SP, 3)
         IN  IF Len(fields) # 4 THEN [ok |-> FALSE, files |-> files]
             ELSE LET entry_type == fields[2]
                      h == fields[3][1]
                      current_path == PathJoin(path_prefix, fields[4])
                  IN  IF entry_type = <<KindWord("blob")>>
                      THEN ReadLines(store, Tail(lines), path_prefix,
                                     DictPut(files, current_path, h))
                      ELSE IF entry_type = <<KindWord("tree")>>
                      THEN LET sub == read_tree_recursive(store, h, current_path, files)
                           IN  IF sub.ok
                               THEN ReadLines(store, Tail(lines), path_prefix, sub.files)
                               ELSE sub
                      ELSE ReadLines(store, Tail(lines), path_prefix, files)

\* get_commit_files of a commit whose tree line names the tree built and
\* written from the index: ok is FALSE when an exception ends the trip.
tree_round_trip(idx) ==
    LET built == build_nested_tree(idx)
    IN  IF ~built.ok THEN [ok |-> FALSE, files |-> <<>>]
        ELSE LET w == write_tree(<<>>, built.tree)
             IN  read_tree_recursive(w.store, w.sha1, <<>>, <<>>)

---------------------------------------------------------------------------
(* The index file: two parsers and three writers *)

\* line.strip().split(' ', 1): the key is everything after the hash, so a
\* four-field line is keyed by "<mtime> <size> <path>", not by its path.
KeyOf(l) == [stat |-> l.stat, path |-> l.path]
PlainKey(p) == [stat |-> Legacy, path |-> p]

\* Python's order of the key strings: a key starting with the digits of an
\* mtime sorts before a path, "0 0 <path>" before a real mtime.
KeyRank(k) == (IF k.stat = Legacy THEN 100 ELSE 10 * k.stat) + PathRank(k.path)

LastWith(idx, P(_)) == CHOOSE i \in DOMAIN idx : P(idx[i]) /\ \A j \in DOMAIN idx : P(idx[j]) => j <= i

\* checkout.load_index, and the same loop in merge.py, revert.py: a dict
\* keyed by split(' ', 1)[1]; a later line overwrites an earlier one.
load_index(idx) ==
    [k \in {KeyOf(idx[i]) : i \in DOMAIN idx} |->
        LET IsK(l) == KeyOf(l) = k IN idx[LastWith(idx, IsK)].hash]

\* index.read_index, and the same loop in add.py and build_tree_from_index:
\* four or more fields are "<hash> <mtime> <size> <path>", fewer "<hash> <path>"
\* with mtime and size 0; keyed by path, a later line overwrites an earlier.
read_index(idx) ==
    [p \in {idx[i].path : i \in DOMAIN idx} |->
        LET IsP(l) == l.path = p
            l == idx[LastWith(idx, IsP)]
        IN  [hash |-> l.hash, stat |-> IF l.stat = Legacy THEN ZeroStat ELSE l.stat]]

\* index.read_index_hashes
read_index_hashes(idx) == LET full == read_index(idx) IN [p \in DOMAIN full |-> full[p].hash]

\* A {path: hash} dict as a total map on Paths, NoBlob where the path is not a key.
AsMap(d) == [p \in Paths |-> IF p \in DOMAIN d THEN d[p] ELSE NoBlob]
\* The dict of a total map.
AsDict(m) == [p \in {q \in Paths : m[q] # NoBlob} |-> m[p]]

\* The loop "for path, hash_val in sorted(current_index.items()): write hash path"
\* of merge.py and revert.py: the key is written back as it was read.
write_keyed(d) ==
    LET ks == SeqByRank(DOMAIN d, [k \in DOMAIN d |-> KeyRank(k)])
    IN  [i \in DOMAIN ks |-> Line(d[ks[i]], ks[i].stat, ks[i].path)]

\* checkout.update_index: "<hash> <path>" lines of a {path: hash} dict, path-sorted.
update_index(files) ==
    LET ps == SeqByRank(DOMAIN files, [p \in DOMAIN files |-> PathRank(p)])
    IN  [i \in DOMAIN ps |-> Line(files[ps[i]], Legacy, ps[i])]

\* index.write_index, and the writing loop of add.py: four-field lines, path-sorted.
write_index(full) ==
    LET ps == SeqByRank(DOMAIN full, [p \in DOMAIN full |-> PathRank(p)])
    IN  [i \in DOMAIN ps |-> Line(full[ps[i]].hash, full[ps[i]].stat, ps[i])]

\* Dict update and deletion.
Put(d, k, v) == [x \in DOMAIN d \cup {k} |-> IF x = k THEN v ELSE d[x]]
Del(d, k) == [x \in DOMAIN d \ {k} |-> d[x]]

---------------------------------------------------------------------------
(* utils/objects.py: trees and commits *)

\* build_tree_from_index + write_tree: the tree of the index file as
\* commit reads it (for flat paths the tree is the path -> hash map).
build_tree_from_index(idx) == AsMap(read_index_hashes(idx))

\* get_commit_files: {} for no commit, else the commit's path -> hash dict.
get_commit_files(cs, c) == IF c = None THEN AsDict([p \in Paths |-> NoBlob]) ELSE AsDict(cs[c].tree)

Commit(tree, parents, msg) == [tree |-> tree, parents |-> parents, msg |-> msg]

\* Commit messages: the text a user gives, and the texts the commands compose.
UserMsg(text) == [kind |-> "user", a |-> text, b |-> ""]
MergeMsg(branch, current) == [kind |-> "Merge branch", a |-> branch, b |-> current]
StashMsg(kind, current, head) == [kind |-> kind, a |-> current, b |-> head]

---------------------------------------------------------------------------
(* utils/repository.py *)

get_head_commit(H, R) ==
    IF H.ref # ""
    THEN IF R[H.ref] = NoFile \/ R[H.ref] = 0 THEN None ELSE R[H.ref]
    ELSE H.hash

get_current_branch(H) == H.ref

get_all_branches(R) == {b \in Branches : R[b] # NoFile}

get_branch_commit(R, b) == IF R[b] = NoFile THEN None ELSE R[b]

Attached(b) == [ref |-> b, hash |-> 0]
Detached(c) == [ref |-> "", hash |-> c]

---------------------------------------------------------------------------
(* The repository as one value, threaded through the commands' code *)

Repo == [HEAD |-> HEAD, refs |-> refs, index |-> index, wd |-> wd,
         commits |-> commits, stash |-> stash, rebase |-> rebase,
         blobs |-> blobs, tags |-> tags, user |-> user]

\* config.get_user_config: both the name and the email are there.
get_user_config(r) == r.user.name /\ r.user.email

\* How a command ended: its exit status and the branch of its code it took.
Outcome(r, exit, res) == [repo |-> r, exit |-> exit, res |-> res]

NoRebase == [active |-> FALSE, headName |-> "", origHead |-> 0, commits |-> <<>>]

---------------------------------------------------------------------------
(* commands/commit.py *)

\* create_commit with the write of the branch ref left out.
create_commit_keeps_ref(r, msg, parents) ==
    IF r.index = <<>> \/ ~get_user_config(r)
    THEN [ok |-> FALSE, repo |-> r, new |-> None]
    ELSE LET c == Len(r.commits) + 1
             cs == Append(r.commits,
                          Commit(build_tree_from_index(r.index), SelectSeq(parents, LAMBDA x : x # None), msg))
         IN  [ok |-> TRUE, new |-> c,
              repo |-> IF get_current_branch(r.HEAD) # ""
                       THEN [r EXCEPT !.commits = cs]
                       ELSE [r EXCEPT !.commits = cs, !.HEAD = Detached(c)]]

\* create_commit: refuses a missing or empty index file and a missing user
\* name or email; else writes the commit of the index's tree and moves the
\* current branch, or HEAD itself when it is detached.  ok is FALSE where
\* the code raises.
\* A variant of create_commit that does not ask for the author's identity.
create_commit_any_author(r, msg, parents) ==
    IF r.index = <<>>
    THEN [ok |-> FALSE, repo |-> r, new |-> None]
    ELSE LET c == Len(r.commits) + 1
             cs == Append(r.commits,
                          Commit(build_tree_from_index(r.index), SelectSeq(parents, LAMBDA x : x # None), msg))
             b == get_current_branch(r.HEAD)
         IN  [ok |-> TRUE, new |-> c,
              repo |-> IF b # ""
                       THEN [r EXCEPT !.commits = cs, !.refs[b] = c]
                       ELSE [r EXCEPT !.commits = cs, !.HEAD = Detached(c)]]

\* A variant of create_commit that writes the new commit into HEAD whether
\* or not HEAD names a branch.
create_commit_on_head(r, msg, parents) ==
    IF r.index = <<>> \/ ~get_user_config(r)
    THEN [ok |-> FALSE, repo |-> r, new |-> None]
    ELSE LET c == Len(r.commits) + 1
             cs == Append(r.commits,
                          Commit(build_tree_from_index(r.index), SelectSeq(parents, LAMBDA x : x # None), msg))
         IN  [ok |-> TRUE, new |-> c,
              repo |-> [r EXCEPT !.commits = cs, !.HEAD = Detached(c)]]

create_commit(r, msg, parents) ==
    IF r.index = <<>> \/ ~get_user_config(r)
    THEN [ok |-> FALSE, repo |-> r, new |-> None]
    ELSE LET c == Len(r.commits) + 1
             cs == Append(r.commits,
                          Commit(build_tree_from_index(r.index), SelectSeq(parents, LAMBDA x : x # None), msg))
             b == get_current_branch(r.HEAD)
         IN  [ok |-> TRUE, new |-> c,
              repo |-> IF b # ""
                       THEN [r EXCEPT !.commits = cs, !.refs[b] = c]
                       ELSE [r EXCEPT !.commits = cs, !.HEAD = Detached(c)]]

\* commit.run
commit_run(r, msg) ==
    LET parent == get_head_commit(r.HEAD, r.refs)
        parents == IF parent # None THEN <<parent>> ELSE <<>>
        res == create_commit(r, msg, parents)
    IN  IF res.ok THEN Outcome(res.repo, 0, "committed")
                  ELSE Outcome(r, 1, "nothing to commit")

---------------------------------------------------------------------------
(* commands/merge.py: the common ancestor *)

_get_commit_parents(cs, c) == cs[c].parents

RECURSIVE AppendNew(_, _, _)
\* "for parent in parents: if parent not in ancestors: mark it, queue it":
\* the queue and the marked set after the loop.
AppendNew(q, anc, ps) ==
    IF ps = <<>> THEN [q |-> q, anc |-> anc]
    ELSE IF Head(ps) \in anc THEN AppendNew(q, anc, Tail(ps))
         ELSE AppendNew(Append(q, Head(ps)), anc \cup {Head(ps)}, Tail(ps))

RECURSIVE LcaLoop(_, _, _, _, _, _)
\* The while loop of _find_common_ancestor: one step on each side per round,
\* the two sides marking their own ancestors and sharing one visited set.
LcaLoop(cs, q1, q2, a1, a2, vis) ==
    IF q1 = <<>> /\ q2 = <<>> THEN None
    ELSE
      LET c1 == Head(q1)
          hit1 == q1 # <<>> /\ c1 \in a2
          exp1 == q1 # <<>> /\ c1 \notin vis
          s1 == IF exp1 THEN AppendNew(Tail(q1), a1, _get_commit_parents(cs, c1))
                ELSE [q |-> IF q1 = <<>> THEN q1 ELSE Tail(q1), anc |-> a1]
          vis1 == IF exp1 THEN vis \cup {c1} ELSE vis
          c2 == Head(q2)
          hit2 == q2 # <<>> /\ c2 \in s1.anc
          exp2 == q2 # <<>> /\ c2 \notin vis1
          s2 == IF exp2 THEN AppendNew(Tail(q2), a2, _get_commit_parents(cs, c2))
                ELSE [q |-> IF q2 = <<>> THEN q2 ELSE Tail(q2), anc |-> a2]
          vis2 == IF exp2 THEN vis1 \cup {c2} ELSE vis1
      IN  IF hit1 THEN c1
          ELSE IF hit2 THEN c2
          ELSE LcaLoop(cs, s1.q, s2.q, s1.anc, s2.anc, vis2)

\* _find_common_ancestor answering its first argument without a search.
_find_common_ancestor_first(cs, c1, c2) == c1

\* _find_common_ancestor walking from its first argument only.
_find_common_ancestor_one_sided(cs, c1, c2) ==
    IF c1 = c2 THEN c1 ELSE LcaLoop(cs, <<c1>>, <<>>, {c1}, {c2}, {})

\* _find_common_ancestor
_find_common_ancestor(cs, c1, c2) ==
    IF c1 = c2 THEN c1 ELSE LcaLoop(cs, <<c1>>, <<c2>>, {c1}, {c2}, {})

---------------------------------------------------------------------------
(* commands/merge.py: the three-way merge *)

\* _stage_file_version: re-reads the index keyed by split(' ', 1), sets the
\* entry keyed by the plain path, writes the blob to the working file and
\* rewrites the index.
_stage_file_version(r, p, h) ==
    [r EXCEPT !.index = write_keyed(Put(load_index(r.index), PlainKey(p), h)),
              !.wd[p] = read_object(h)]

\* _remove_file: deletes the entry keyed by the plain path, if there is one,
\* and the working file.
_remove_file(r, p) ==
    [r EXCEPT !.index = write_keyed(Del(load_index(r.index), PlainKey(p))),
              !.wd[p] = Absent]

\* _create_conflict_file: the working file becomes the marker block.
_create_conflict_file(r, p, o, t) == [r EXCEPT !.wd[p] = ConflictText(o, t)]

\* _merge_file answering 'unchanged' for every path.
_merge_file_ours(r, p, b, o, t) == [res |-> "unchanged", repo |-> r]

\* _merge_file(ancestor b, head o, merge t): the result string and the
\* repository after the staging or removal the case performs.
_merge_file(r, p, b, o, t) ==
    IF o = t THEN [res |-> "unchanged", repo |-> r]
    ELSE IF o = NoBlob /\ t = NoBlob THEN [res |-> "unchanged", repo |-> r]
    ELSE IF o = b
         THEN IF t # NoBlob
              THEN [res |-> IF b = NoBlob THEN "added" ELSE "modified",
                    repo |-> _stage_file_version(r, p, t)]
              ELSE [res |-> "deleted", repo |-> _remove_file(r, p)]
    ELSE IF t = b
         THEN IF o # NoBlob
              THEN [res |-> "unchanged", repo |-> _stage_file_version(r, p, o)]
              ELSE [res |-> "unchanged", repo |-> _remove_file(r, p)]
    ELSE IF o # t THEN [res |-> "conflict", repo |-> r]
    ELSE [res |-> "unchanged", repo |-> r]

RECURSIVE MergeLoop(_, _, _, _, _, _)
\* "for file_path in sorted(all_files)": the repository after the loop and
\* the conflicted paths.
MergeLoop(r, ps, fB, fO, fT, conflicts) ==
    IF ps = <<>> THEN [repo |-> r, conflicts |-> conflicts]
    ELSE LET p == Head(ps)
             m == _merge_file(r, p, fB[p], fO[p], fT[p])
         IN  IF m.res = "conflict"
             THEN MergeLoop(_create_conflict_file(m.repo, p, fO[p], fT[p]), Tail(ps),
                            fB, fO, fT, conflicts \cup {p})
             ELSE MergeLoop(m.repo, Tail(ps), fB, fO, fT, conflicts)

\* What _perform_three_way_merge writes once the loop found no conflict: the
\* dict it read from the index file before the loop.
merged_index_written(before) == write_keyed(load_index(before))

\* _perform_three_way_merge(ancestor, head, merge)
_perform_three_way_merge(r, anc, head, merge) ==
    LET fB == AsMap(get_commit_files(r.commits, anc))
        fO == AsMap(get_commit_files(r.commits, head))
        fT == AsMap(get_commit_files(r.commits, merge))
        all == SelectSeq(PathSeq, LAMBDA p : fB[p] # NoBlob \/ fO[p] # NoBlob \/ fT[p] # NoBlob)
        done == MergeLoop(r, all, fB, fO, fT, {})
    IN  IF done.conflicts # {}
        THEN [ok |-> FALSE, repo |-> done.repo, conflicts |-> done.conflicts]
        ELSE [ok |-> TRUE, conflicts |-> {},
              repo |-> [done.repo EXCEPT !.index = merged_index_written(r.index)]]

\* The end of merge.run with the conflict exit left out.
merge_finish_commits_anyway(r, m, b, head, other) ==
    LET c == create_commit(m.repo, MergeMsg(b, get_current_branch(r.HEAD)), <<head, other>>)
    IN  IF c.ok THEN Outcome(c.repo, IF m.ok THEN 0 ELSE 1, IF m.ok THEN "merged" ELSE "conflict")
        ELSE Outcome(m.repo, 1, "nothing to commit")

\* merge.run, after the three-way merge: the conflict exit, or the merge commit.
merge_finish(r, m, b, head, other) ==
    IF ~m.ok THEN Outcome(m.repo, 1, "conflict")
    ELSE LET c == create_commit(m.repo, MergeMsg(b, get_current_branch(r.HEAD)), <<head, other>>)
         IN  IF c.ok THEN Outcome(c.repo, 0, "merged")
             ELSE Outcome(m.repo, 1, "nothing to commit")

\* merge.run
merge_run(r, b) ==
    LET head == get_head_commit(r.HEAD, r.refs)
        other == get_branch_commit(r.refs, b)
        anc == _find_common_ancestor(r.commits, head, other)
    IN  IF get_current_branch(r.HEAD) = b THEN Outcome(r, 1, "already on branch")
        ELSE IF b \notin get_all_branches(r.refs) THEN Outcome(r, 1, "no such branch")
        ELSE IF head = None \/ other = None THEN Outcome(r, 1, "missing history")
        ELSE IF anc = None THEN Outcome(r, 1, "no common ancestor")
        ELSE merge_finish(r, _perform_three_way_merge(r, anc, head, other), b, head, other)

---------------------------------------------------------------------------
(* commands/checkout.py *)

_is_branch(R, name) == name \in get_all_branches(R)

\* is_clean: HEAD's files equal the index as load_index keys it, every
\* working file that is a key of the index hashes to its entry, and every
\* key of the index names an existing file.
is_clean(r) ==
    LET head_commit == get_head_commit(r.HEAD, r.refs)
        head_files == get_commit_files(r.commits, head_commit)
        index_files == load_index(r.index)
    IN  /\ DOMAIN index_files = {PlainKey(p) : p \in DOMAIN head_files}
        /\ \A p \in DOMAIN head_files : index_files[PlainKey(p)] = head_files[p]
        /\ \A p \in Paths :
              (r.wd[p] # Absent /\ PlainKey(p) \in DOMAIN index_files)
                  => hash_object(r.wd[p]) = index_files[PlainKey(p)]
        /\ \A k \in DOMAIN index_files : k.stat = Legacy /\ r.wd[k.path] # Absent

\* A variant of update_working_directory that deletes nothing.
update_working_directory_keeps(w, current_files, target_files) ==
    [p \in Paths |->
        IF p \in DOMAIN target_files
              /\ (p \notin DOMAIN current_files \/ current_files[p] # target_files[p])
        THEN read_object(target_files[p])
        ELSE w[p]]

\* update_working_directory: writes the target's files that are new or
\* differ from the current tree's entry, deletes the current tree's files
\* that the target lacks; every other working file is left as it is.
update_working_directory(w, current_files, target_files) ==
    [p \in Paths |->
        IF p \in DOMAIN target_files
        THEN IF p \notin DOMAIN current_files \/ current_files[p] # target_files[p]
             THEN read_object(target_files[p])
             ELSE w[p]
        ELSE IF p \in DOMAIN current_files THEN Absent ELSE w[p]]

\* perform_checkout with the write of HEAD left out.
perform_checkout_keeps_head(r, target_branch) ==
    IF ~is_clean(r) THEN Outcome(r, 1, "dirty")
    ELSE
      LET target_files == get_commit_files(r.commits, get_branch_commit(r.refs, target_branch))
          current_files == get_commit_files(r.commits, get_head_commit(r.HEAD, r.refs))
      IN  Outcome([r EXCEPT !.wd = update_working_directory(r.wd, current_files, target_files),
                            !.index = update_index(target_files)],
                  0, "switched")

\* perform_checkout
perform_checkout(r, target_branch) ==
    IF ~is_clean(r) THEN Outcome(r, 1, "dirty")
    ELSE
      LET target_files == get_commit_files(r.commits, get_branch_commit(r.refs, target_branch))
          current_files == get_commit_files(r.commits, get_head_commit(r.HEAD, r.refs))
      IN  Outcome([r EXCEPT !.wd = update_working_directory(r.wd, current_files, target_files),
                            !.index = update_index(target_files),
                            !.HEAD = Attached(target_branch)],
                  0, "switched")

\* repository.create_branch: refuses no commit and an existing ref file.
\* A variant of create_branch that writes the ref file whether or not it exists.
create_branch_overwrites(R, b, c) ==
    IF c = None THEN R ELSE [R EXCEPT ![b] = c]

create_branch(R, b, c) ==
    IF c = None \/ R[b] # NoFile THEN R ELSE [R EXCEPT ![b] = c]

\* handle_create_and_checkout
handle_create_and_checkout(r, b) ==
    LET head_commit == get_head_commit(r.HEAD, r.refs)
    IN  IF _is_branch(r.refs, b) THEN Outcome(r, 1, "branch exists")
        ELSE IF head_commit = None THEN Outcome(r, 1, "no commits")
        ELSE perform_checkout([r EXCEPT !.refs = create_branch(r.refs, b, head_commit)], b)

\* handle_branch_checkout
handle_branch_checkout(r, b) ==
    IF get_current_branch(r.HEAD) = b THEN Outcome(r, 0, "already on")
    ELSE perform_checkout(r, b)

\* handle_file_restore for one target: the working file is rewritten from
\* the index entry keyed by the target, an error when there is none.
handle_file_restore(r, target) ==
    LET index_files == load_index(r.index)
    IN  IF target \in Paths /\ PlainKey(target) \in DOMAIN index_files
        THEN Outcome([r EXCEPT !.wd[target] = read_object(index_files[PlainKey(target)])], 0, "restored")
        ELSE Outcome(r, 1, "pathspec")

\* checkout.run
checkout_run(r, target, create) ==
    IF create THEN handle_create_and_checkout(r, target)
    ELSE IF _is_branch(r.refs, target) THEN handle_branch_checkout(r, target)
    ELSE handle_file_restore(r, target)

---------------------------------------------------------------------------
(* commands/branch.py, commands/add.py *)

\* branch.run with a name
branch_run(r, b) ==
    LET head_commit_hash == get_head_commit(r.HEAD, r.refs)
        written == create_branch(r.refs, b, head_commit_hash)
    IN  IF written = r.refs THEN Outcome(r, 1, "refused")
        ELSE Outcome([r EXCEPT !.refs = written], 0, "created")

\* add.run for one path: the index is read by field count, the entry of an
\* existing file is set to its blob with the file's mtime and size, and all
\* entries are written back as four-field lines.
\* A variant of add_run that hashes the file without writing the blob.
add_run_unwritten(r, p) ==
    LET full == read_index(r.index)
        upd == IF r.wd[p] # Absent
               THEN Put(full, p, [hash |-> hash_object(r.wd[p]), stat |-> RealStat])
               ELSE full
    IN  Outcome([r EXCEPT !.index = write_index(upd)],
                0, IF r.wd[p] # Absent THEN "added" ELSE "pathspec")

add_run(r, p) ==
    LET full == read_index(r.index)
        upd == IF r.wd[p] # Absent
               THEN Put(full, p, [hash |-> hash_object(r.wd[p]), stat |-> RealStat])
               ELSE full
    IN  Outcome([r EXCEPT !.index = write_index(upd),
                          !.blobs = IF r.wd[p] # Absent THEN @ \cup {hash_object(r.wd[p])} ELSE @],
                0, IF r.wd[p] # Absent THEN "added" ELSE "pathspec")

---------------------------------------------------------------------------
(* commands/rebase.py *)

_get_parents(cs, c) == cs[c].parents

\* _get_commit_data: the message and the first parent (None without one).
_get_commit_data(cs, c) ==
    [message |-> cs[c].msg,
     parent |-> IF cs[c].parents = <<>> THEN None ELSE cs[c].parents[1]]

RECURSIVE Reach(_, _, _)
Reach(cs, frontier, seen) ==
    IF frontier = {} THEN seen
    ELSE LET c == CHOOSE x \in frontier : TRUE
             ps == Range(_get_parents(cs, c)) \ (seen \cup {c})
         IN  Reach(cs, (frontier \ {c}) \cup ps, seen \cup {c})

\* _get_reachable_commits: the commit and all its ancestors.
_get_reachable_commits(cs, start) == IF start = None THEN {} ELSE Reach(cs, {start}, {})

RECURSIVE Kahn(_, _, _, _)
\* The while loop of _topological_sort.  adj[n] lists n's children in the
\* order the set's iteration met them.
Kahn(queue, sorted_result, in_degree, adj) ==
    IF queue = <<>> THEN sorted_result
    ELSE LET node == Head(queue)
             deg == [c \in DOMAIN in_degree |->
                        in_degree[c] - Len(SelectSeq(adj[node], LAMBDA x : x = c))]
             ready == SelectSeq(adj[node], LAMBDA x : deg[x] = 0)
         IN  Kahn(Tail(queue) \o ready, Append(sorted_result, node), deg, adj)

\* A variant of _topological_sort that answers the set in the order of its
\* iteration.
_topological_sort_unsorted(cs, order) == order

\* _topological_sort: order is the sequence in which Python iterates the
\* set, which the language leaves open.
_topological_sort(cs, order) ==
    LET commit_set == Range(order)
        adj == [p \in commit_set |->
                   SelectSeq(order, LAMBDA c : p \in Range(_get_parents(cs, c)))]
        in_degree == [c \in commit_set |-> Cardinality(Range(_get_parents(cs, c)) \cap commit_set)]
    IN  Kahn(SelectSeq(order, LAMBDA c : in_degree[c] = 0), <<>>, in_degree, adj)

\* The set _collect_commits_to_replay sorts: reachable from head and not
\* from upstream, merge commits dropped.
linear_set(cs, head, upstream) ==
    {c \in _get_reachable_commits(cs, head) \ _get_reachable_commits(cs, upstream) :
        Len(_get_parents(cs, c)) <= 1}

\* The orders in which a set can be iterated.
Orders(S) == {o \in [1..Cardinality(S) -> S] : Range(o) = S}

\* _finish_rebase: the branch of head-name is set to HEAD's commit, HEAD is
\* attached to it and the state directory is removed.
_finish_rebase(r) ==
    IF ~r.rebase.active THEN r
    ELSE [r EXCEPT !.refs[r.rebase.headName] = get_head_commit(r.HEAD, r.refs),
                   !.HEAD = Attached(r.rebase.headName),
                   !.rebase = NoRebase]

\* _pop_commit_from_state
_pop_commit_from_state(r) ==
    IF r.rebase.commits = <<>> THEN r ELSE [r EXCEPT !.rebase.commits = Tail(@)]

RECURSIVE _replay_loop(_)
\* _replay_loop that finishes at once, replaying nothing.
_replay_loop_skip(r) == Outcome(_finish_rebase(r), 0, "rebased")

\* _replay_loop: each remaining commit is merged into HEAD with its first
\* parent as base and committed under its own message; a conflict stops the
\* command with the commit still at the head of the list.
_replay_loop(r) ==
    IF r.rebase.commits = <<>> THEN Outcome(_finish_rebase(r), 0, "rebased")
    ELSE LET commit_hash == Head(r.rebase.commits)
             commit_data == _get_commit_data(r.commits, commit_hash)
             current_head == get_head_commit(r.HEAD, r.refs)
             m == _perform_three_way_merge(r, commit_data.parent, current_head, commit_hash)
             c == create_commit(m.repo, commit_data.message, <<current_head>>)
         IN  IF ~m.ok THEN Outcome(m.repo, 1, "conflict")
             ELSE IF ~c.ok THEN Outcome(m.repo, 1, "nothing to commit")
             ELSE _replay_loop(_pop_commit_from_state(c.repo))

\* _save_rebase_state
_save_rebase_state(r, branch_name, commits_to_replay) ==
    [r EXCEPT !.rebase = [active |-> TRUE, headName |-> branch_name,
                          origHead |-> get_head_commit(r.HEAD, r.refs),
                          commits |-> commits_to_replay]]

\* The commit the upstream argument names: the branch's commit, else the
\* argument itself when it is the hash of a commit.  The argument is given
\* as [name, hash], one of the two filled in.
upstream_commit_of(r, upstream) ==
    IF upstream.name # "" /\ get_branch_commit(r.refs, upstream.name) # None
    THEN get_branch_commit(r.refs, upstream.name)
    ELSE IF upstream.hash \in DOMAIN r.commits THEN upstream.hash
    ELSE None

\* _start_rebase
_start_rebase(r, upstream, order) ==
    LET current_branch == get_current_branch(r.HEAD)
        head_commit == get_head_commit(r.HEAD, r.refs)
        upstream_commit == upstream_commit_of(r, upstream)
        commits_to_replay == _topological_sort(r.commits, order)
        saved == _save_rebase_state(r, current_branch, commits_to_replay)
        upstream_files == get_commit_files(r.commits, upstream_commit)
        current_files == get_commit_files(r.commits, head_commit)
    IN  IF ~is_clean(r) THEN Outcome(r, 1, "dirty")
        ELSE IF current_branch = "" THEN Outcome(r, 1, "not on a branch")
        ELSE IF upstream_commit = None THEN Outcome(r, 1, "no upstream")
        ELSE IF head_commit = None THEN Outcome(r, 1, "no commits")
        ELSE IF current_branch = upstream.name THEN Outcome(r, 0, "up to date")
        ELSE IF commits_to_replay = <<>> THEN Outcome(r, 0, "up to date")
        ELSE _replay_loop([saved EXCEPT
                 !.wd = update_working_directory(r.wd, current_files, upstream_files),
                 !.index = update_index(upstream_files),
                 !.HEAD = Detached(upstream_commit)])

\* The points after _save_rebase_state at which a running _start_rebase can
\* be stopped from outside: after the state files, after the working files,
\* after the index, after HEAD, and in the first round of the replay loop
\* after the merge and after the commit.
RebaseStages == <<"saved", "files", "index", "head", "merged", "committed">>
StageRank(stage) == CHOOSE i \in DOMAIN RebaseStages : RebaseStages[i] = stage

\* _start_rebase stopped from outside once it has passed the given point;
\* a run that ends by itself before that point ends as _start_rebase does.
_start_rebase_interrupted(r, upstream, order, stage) ==
    LET current_branch == get_current_branch(r.HEAD)
        head_commit == get_head_commit(r.HEAD, r.refs)
        upstream_commit == upstream_commit_of(r, upstream)
        commits_to_replay == _topological_sort(r.commits, order)
        upstream_files == get_commit_files(r.commits, upstream_commit)
        current_files == get_commit_files(r.commits, head_commit)
        saved == _save_rebase_state(r, current_branch, commits_to_replay)
        files == [saved EXCEPT !.wd = update_working_directory(r.wd, current_files, upstream_files)]
        indexed == [files EXCEPT !.index = update_index(upstream_files)]
        detached == [indexed EXCEPT !.HEAD = Detached(upstream_commit)]
        commit_hash == Head(commits_to_replay)
        commit_data == _get_commit_data(r.commits, commit_hash)
        m == _perform_three_way_merge(detached, commit_data.parent, upstream_commit, commit_hash)
        c == create_commit(m.repo, commit_data.message, <<upstream_commit>>)
        n == StageRank(stage)
    IN  IF ~is_clean(r) THEN Outcome(r, 1, "dirty")
        ELSE IF current_branch = "" THEN Outcome(r, 1, "not on a branch")
        ELSE IF upstream_commit = None THEN Outcome(r, 1, "no upstream")
        ELSE IF head_commit = None THEN Outcome(r, 1, "no commits")
        ELSE IF current_branch = upstream.name THEN Outcome(r, 0, "up to date")
        ELSE IF commits_to_replay = <<>> THEN Outcome(r, 0, "up to date")
        ELSE IF n = 1 THEN Outcome(saved, 130, "interrupted")
        ELSE IF n = 2 THEN Outcome(files, 130, "interrupted")
        ELSE IF n = 3 THEN Outcome(indexed, 130, "interrupted")
        ELSE IF n = 4 THEN Outcome(detached, 130, "interrupted")
        ELSE IF ~m.ok THEN Outcome(m.repo, 1, "conflict")
        ELSE IF n = 5 THEN Outcome(m.repo, 130, "interrupted")
        ELSE IF ~c.ok THEN Outcome(m.repo, 1, "nothing to commit")
        ELSE Outcome(c.repo, 130, "interrupted")

\* _handle_continue with only the pop and the resumed loop.
_handle_continue_pop_only(r) ==
    IF ~r.rebase.active THEN Outcome(r, 1, "no rebase")
    ELSE IF r.rebase.commits = <<>> THEN Outcome(_finish_rebase(r), 0, "rebased")
    ELSE _replay_loop(_pop_commit_from_state(r))

\* _handle_continue
_handle_continue(r) ==
    IF ~r.rebase.active THEN Outcome(r, 1, "no rebase")
    ELSE IF r.rebase.commits = <<>> THEN Outcome(_finish_rebase(r), 0, "rebased")
    ELSE LET commit_data == _get_commit_data(r.commits, Head(r.rebase.commits))
             current_head == get_head_commit(r.HEAD, r.refs)
             c == create_commit(r, commit_data.message, <<current_head>>)
         IN  IF ~c.ok THEN Outcome(r, 1, "nothing to commit")
             ELSE _replay_loop(_pop_commit_from_state(c.repo))

\* _handle_abort
_handle_abort(r) ==
    IF ~r.rebase.active THEN Outcome(r, 1, "no rebase")
    ELSE LET current_files == get_commit_files(r.commits, get_head_commit(r.HEAD, r.refs))
             target_files == get_commit_files(r.commits, r.rebase.origHead)
         IN  Outcome([r EXCEPT !.wd = update_working_directory(r.wd, current_files, target_files),
                               !.index = update_index(target_files),
                               !.HEAD = Attached(r.rebase.headName),
                               !.rebase = NoRebase],
                     0, "aborted")

---------------------------------------------------------------------------
(* commands/stash.py *)

\* objects.read_index, as stash.py calls it: the index read by field count.
objects_read_index(idx) == read_index(idx)

\* objects.build_tree_from_dict: the tree of a {path: (hash, mtime, size)} dict.
build_tree_from_dict(d) == AsMap([p \in DOMAIN d |-> d[p].hash])

\* _create_stash_commit: a commit object that no ref is moved to.
_create_stash_commit(cs, tree, parents, msg) == Append(cs, Commit(tree, parents, msg))

\* stash._is_clean: HEAD's files equal the index read by field count, and
\* no index entry's working file is missing or differs.
_is_clean(r) ==
    LET files1_head == get_commit_files(r.commits, get_head_commit(r.HEAD, r.refs))
        index_full == objects_read_index(r.index)
        files2_idx == [p \in DOMAIN index_full |-> index_full[p].hash]
    IN  /\ files1_head = files2_idx
        /\ \A p \in DOMAIN files2_idx :
              r.wd[p] # Absent /\ hash_object(r.wd[p]) = files2_idx[p]

\* The files push captures for the working-directory commit: the existing
\* files that are in HEAD or in the index.
workdir_index(r, head_files, index_files) ==
    [p \in {q \in DOMAIN head_files \cup DOMAIN index_files : r.wd[q] # Absent} |->
        [hash |-> hash_object(r.wd[p]), stat |-> RealStat]]

\* push
stash_push(r) ==
    LET head_commit == get_head_commit(r.HEAD, r.refs)
        cur == get_current_branch(r.HEAD)
        hd == IF head_commit = None THEN <<>> ELSE <<head_commit>>
        index_files == objects_read_index(r.index)
        cs1 == _create_stash_commit(r.commits, build_tree_from_dict(index_files), hd,
                                    StashMsg("index on", cur, "head"))
        index_commit_hash == Len(cs1)
        head_files == get_commit_files(r.commits, head_commit)
        wdi == workdir_index(r, head_files, index_files)
        cs2 == _create_stash_commit(cs1, build_tree_from_dict(wdi),
                                    Append(hd, index_commit_hash),
                                    StashMsg("WIP on", cur, "head"))
        saved == [r EXCEPT !.commits = cs2, !.stash = Append(r.stash, Len(cs2)),
                           !.blobs = @ \cup {wdi[p].hash : p \in DOMAIN wdi}]
    IN  IF head_commit = None THEN Outcome(saved, 0, "pushed")
        ELSE Outcome([saved EXCEPT
                 !.index = write_index([p \in DOMAIN head_files |->
                                           [hash |-> head_files[p], stat |-> ZeroStat]]),
                 !.wd = [p \in Paths |->
                            IF p \in DOMAIN head_files THEN read_object(head_files[p])
                            ELSE IF p \in DOMAIN wdi THEN Absent
                            ELSE r.wd[p]]],
             0, "pushed")

\* pop taking the first line of the log instead of the last.
stash_pop_oldest(r) ==
    IF r.stash = <<>> THEN Outcome(r, 0, "no stash")
    ELSE IF ~_is_clean(r) THEN Outcome(r, 0, "dirty")
    ELSE
      LET stash_commit_hash == r.stash[1]
          parents == r.commits[stash_commit_hash].parents
          index_parent == IF Len(parents) < 2 THEN None ELSE parents[2]
          workdir_files == get_commit_files(r.commits, stash_commit_hash)
          index_files == get_commit_files(r.commits, index_parent)
          restored == write_index([p \in DOMAIN index_files |->
                         [hash |-> index_files[p], stat |-> ZeroStat]])
      IN  Outcome([r EXCEPT
                     !.wd = [p \in Paths |-> IF p \in DOMAIN workdir_files
                                             THEN read_object(workdir_files[p]) ELSE r.wd[p]],
                     !.index = IF index_parent # None THEN restored ELSE r.index,
                     !.stash = Tail(r.stash)],
                  0, "popped")

\* pop
stash_pop(r) ==
    IF r.stash = <<>> THEN Outcome(r, 0, "no stash")
    ELSE IF ~_is_clean(r) THEN Outcome(r, 0, "dirty")
    ELSE
      LET stash_commit_hash == r.stash[Len(r.stash)]
          parents == r.commits[stash_commit_hash].parents
          index_parent == IF Len(parents) < 2 THEN None ELSE parents[2]
          workdir_files == get_commit_files(r.commits, stash_commit_hash)
          index_files == get_commit_files(r.commits, index_parent)
          restored == write_index([p \in DOMAIN index_files |->
                         [hash |-> index_files[p],
                          stat |-> IF p \in DOMAIN workdir_files /\ workdir_files[p] = index_files[p]
                                   THEN RealStat ELSE ZeroStat]])
      IN  Outcome([r EXCEPT
                     !.wd = [p \in Paths |-> IF p \in DOMAIN workdir_files
                                             THEN read_object(workdir_files[p]) ELSE r.wd[p]],
                     !.index = IF index_parent # None THEN restored ELSE r.index,
                     !.stash = SubSeq(r.stash, 1, Len(r.stash) - 1)],
                  0, "popped")

---------------------------------------------------------------------------
(* commands/cherry_pick.py, commands/revert.py, commands/reset.py,
   commands/tag.py, commands/config.py *)

\* A revision argument: a name (HEAD, a branch, a tag) or a commit hash.
RefName(n) == [name |-> n, hash |-> None]
RefHash(c) == [name |-> "", hash |-> c]

\* cherry_pick._resolve_ref: HEAD, then a branch with a commit, then a tag,
\* then the argument itself when it has the form of a hash.
_resolve_ref(r, ref) ==
    IF ref.name = "HEAD" THEN get_head_commit(r.HEAD, r.refs)
    ELSE IF ref.name \in Branches /\ get_branch_commit(r.refs, ref.name) # None
         THEN get_branch_commit(r.refs, ref.name)
    ELSE IF ref.name \in Tags /\ r.tags[ref.name] # NoFile THEN r.tags[ref.name]
    ELSE IF ref.name = "" THEN ref.hash
    ELSE None

\* cherry_pick.run: the three-way merge of (first parent of the target,
\* HEAD, target) and, without conflict, a commit on HEAD under the target's
\* message.
cherry_pick_run(r, ref) ==
    LET target_commit_hash == _resolve_ref(r, ref)
        head_hash == get_head_commit(r.HEAD, r.refs)
    IN  IF target_commit_hash = None THEN Outcome(r, 1, "bad revision")
        ELSE IF target_commit_hash \notin DOMAIN r.commits THEN Outcome(r, 1, "no object")
        ELSE IF Len(_get_commit_parents(r.commits, target_commit_hash)) > 1
             THEN Outcome(r, 1, "is a merge")
        ELSE IF head_hash = None THEN Outcome(r, 1, "no commits")
        ELSE
          LET parents == _get_commit_parents(r.commits, target_commit_hash)
              parent_hash == IF parents = <<>> THEN None ELSE parents[1]
              m == _perform_three_way_merge(r, parent_hash, head_hash, target_commit_hash)
              c == create_commit(m.repo, r.commits[target_commit_hash].msg, <<head_hash>>)
          IN  IF ~m.ok THEN Outcome(m.repo, 1, "conflict")
              ELSE IF ~c.ok THEN Outcome(m.repo, 1, "nothing to commit")
              ELSE Outcome(c.repo, 0, "picked")

\* The message revert composes from the first line of the reverted one.
RevertMsg(msg) == [kind |-> "Revert", a |-> msg.kind, b |-> msg.a]

\* revert._get_commit_data: 'parent' is overwritten by every parent line,
\* so it ends as the last parent.
revert_parent(cs, c) ==
    IF cs[c].parents = <<>> THEN None ELSE cs[c].parents[Len(cs[c].parents)]

\* _apply_reverse_changes: the index is read keyed by split(' ', 1); files
\* the commit added are deleted and their plain-path key dropped, files it
\* deleted or modified are rewritten from the parent and set under the
\* plain-path key; the keys are written back as they were read.
_apply_reverse_changes(r, parent_files, target_files) ==
    LET added == DOMAIN target_files \ DOMAIN parent_files
        back == {p \in DOMAIN parent_files :
                    p \notin DOMAIN target_files \/ parent_files[p] # target_files[p]}
        index_files == load_index(r.index)
        kept == [k \in DOMAIN index_files \ {PlainKey(p) : p \in added} |-> index_files[k]]
        new == [k \in DOMAIN kept \cup {PlainKey(p) : p \in back} |->
                   IF k.stat = Legacy /\ k.path \in back THEN parent_files[k.path] ELSE kept[k]]
    IN  [r EXCEPT !.index = write_keyed(new),
                  !.wd = [p \in Paths |->
                             IF p \in added THEN Absent
                             ELSE IF p \in back THEN read_object(parent_files[p])
                             ELSE r.wd[p]]]

\* revert.run
revert_run(r, commit_hash) ==
    IF commit_hash \notin DOMAIN r.commits THEN Outcome(r, 1, "not a commit")
    ELSE IF revert_parent(r.commits, commit_hash) = None THEN Outcome(r, 1, "initial commit")
    ELSE
      LET current_head == get_head_commit(r.HEAD, r.refs)
          parent_files == get_commit_files(r.commits, revert_parent(r.commits, commit_hash))
          target_files == get_commit_files(r.commits, commit_hash)
          applied == _apply_reverse_changes(r, parent_files, target_files)
          c == create_commit(applied, RevertMsg(r.commits[commit_hash].msg), <<current_head>>)
      IN  IF c.ok THEN Outcome(c.repo, 0, "reverted")
          ELSE Outcome(applied, 1, "nothing to commit")

\* reset.run for one file: the lines whose split(' ', 1) key is the file are
\* dropped, the others kept as they are.
reset_run(r, p) ==
    Outcome([r EXCEPT !.index = SelectSeq(r.index, LAMBDA l : KeyOf(l) # PlainKey(p))], 0, "reset")

\* tag.create_tag
tag_run(r, name) ==
    LET head_commit == get_head_commit(r.HEAD, r.refs)
    IN  IF head_commit = None THEN Outcome(r, 1, "no HEAD")
        ELSE IF r.tags[name] # NoFile THEN Outcome(r, 1, "tag exists")
        ELSE Outcome([r EXCEPT !.tags[name] = head_commit], 0, "tagged")

\* config.run for user.name or user.email: an empty value counts as unset
\* when get_user_config reads it.
config_run(r, key, value) ==
    Outcome([r EXCEPT !.user[key] = (value # "")], 0, "set")

---------------------------------------------------------------------------
(* commands/cherry_pick.py: _resolve_ref on the text of a revision *)

\* Revisions, names and hashes as their characters.
Text_HEAD == <<72, 69, 65, 68>>
Text_head == <<104, 101, 97, 100>>
Text_abcd == <<97, 98, 99, 100>>
Text_ABCD == <<65, 66, 67, 68>>
Text_abce == <<97, 98, 99, 101>>

FullLen == 40
MinPrefixLen == 4

\* Three object names: the first two share their first four characters.
HashA == Text_abcd \o [i \in 1..(FullLen - 4) |-> 48]
HashB == Text_abcd \o [i \in 1..(FullLen - 4) |-> 49]
HashC == <<100, 99, 98, 97>> \o [i \in 1..(FullLen - 4) |-> 48]
HashPool == {HashA, HashB, HashC}

\* c in '0123456789abcdefABCDEF'
IsHexChar(c) == c \in (48..57) \cup (97..102) \cup (65..70)
UpperText(t) == [i \in DOMAIN t |-> IF t[i] \in 97..122 THEN t[i] - 32 ELSE t[i]]
LowerText(t) == [i \in DOMAIN t |-> IF t[i] \in 65..90 THEN t[i] + 32 ELSE t[i]]
StartsWith(t, pre) == Len(pre) <= Len(t) /\ SubSeq(t, 1, Len(pre)) = pre

\* A ref file: is it there, and its stripped content (<<>> when empty).
NoRefFile == [exists |-> FALSE, content |-> <<>>]
RefFile(content) == [exists |-> TRUE, content |-> content]
FileOf(files, name) == IF name \in DOMAIN files THEN files[name] ELSE NoRefFile

\* The stored object of a kind under a name.
StoredObject(name, kind) == [name |-> name, data |-> compress(ObjectData(<<>>, kind))]

Resolved(h) == [status |-> "resolved", hash |-> h]
Unresolved == [status |-> "none", hash |-> <<>>]
Ambiguous == [status |-> "ambiguous", hash |-> <<>>]

\* The names in .pit/objects/<ref[:2]>/ that start with ref[2:], the
\* directory part put back in front.
PrefixMatches(store, ref) ==
    LET obj_prefix_dir == LowerText(SubSeq(ref, 1, 2))
        obj_prefix_file == LowerText(SubSeq(ref, 3, Len(ref)))
    IN  {f.name : f \in {g \in store :
                             /\ SubSeq(g.name, 1, 2) = obj_prefix_dir
                             /\ StartsWith(SubSeq(g.name, 3, Len(g.name)), obj_prefix_file)}}

\* The two hash steps of _resolve_ref: a full hash, then a short one.
resolve_hash_text(store, ref) ==
    IF Len(ref) = FullLen /\ \A i \in DOMAIN ref : IsHexChar(ref[i])
    THEN Resolved(LowerText(ref))
    ELSE IF MinPrefixLen <= Len(ref) /\ Len(ref) < FullLen
            /\ \A i \in DOMAIN ref : IsHexChar(ref[i])
    THEN LET matches == PrefixMatches(store, ref)
         IN  IF Cardinality(matches) = 1 THEN Resolved(CHOOSE h \in matches : TRUE)
             ELSE IF Cardinality(matches) > 1 THEN Ambiguous
             ELSE Unresolved
    ELSE Unresolved

\* A variant of resolve_ref_text that looks at the tags before the branches.
resolve_ref_text_tag_first(head_commit, branch_files, tag_files, store, ref) ==
    IF UpperText(ref) = Text_HEAD
    THEN IF head_commit = <<>> THEN Unresolved ELSE Resolved(head_commit)
    ELSE IF FileOf(tag_files, ref).exists
    THEN IF FileOf(tag_files, ref).content = <<>> THEN Unresolved
         ELSE Resolved(FileOf(tag_files, ref).content)
    ELSE IF FileOf(branch_files, ref).content # <<>>
    THEN Resolved(FileOf(branch_files, ref).content)
    ELSE resolve_hash_text(store, ref)

\* _resolve_ref: HEAD, a branch, a tag, a full hash, a short hash.
resolve_ref_text(head_commit, branch_files, tag_files, store, ref) ==
    IF UpperText(ref) = Text_HEAD
    THEN IF head_commit = <<>> THEN Unresolved ELSE Resolved(head_commit)
    ELSE IF FileOf(branch_files, ref).content # <<>>
    THEN Resolved(FileOf(branch_files, ref).content)
    ELSE IF FileOf(tag_files, ref).exists
    THEN IF FileOf(tag_files, ref).content = <<>> THEN Unresolved
         ELSE Resolved(FileOf(tag_files, ref).content)
    ELSE resolve_hash_text(store, ref)

---------------------------------------------------------------------------
(* utils/ignore.py and commands/clean.py *)

\* A file or directory name as its stem and its extension ("keep.log"); a
\* path is the sequence of its names from the repository root.
Name(stem, ext) == [stem |-> stem, ext |-> ext]
DotPit == Name(".pit", "")
PitIgnore == <<Name(".pitignore", "")>>
Parent(path) == SubSeq(path, 1, Len(path) - 1)
IsUnder(path, d) == Len(d) <= Len(path) /\ SubSeq(path, 1, Len(d)) = d

\* Glob patterns: "*.<ext>", a literal name, "<name>/*".
ExtGlob(e) == [kind |-> "ext", name |-> Name("*", e)]
NameGlob(n) == [kind |-> "name", name |-> n]
UnderGlob(n) == [kind |-> "under", name |-> n]

\* fnmatch of one name: a name holds no "/", so "<name>/*" never matches it.
fnmatch_part(n, pat) ==
    CASE pat.kind = "ext" -> n.ext = pat.name.ext
      [] pat.kind = "name" -> n = pat.name
      [] OTHER -> FALSE

\* fnmatch of a whole path: "*" also runs over "/".
fnmatch(path, pat) ==
    CASE pat.kind = "ext" -> path # <<>> /\ path[Len(path)].ext = pat.name.ext
      [] pat.kind = "name" -> path = <<pat.name>>
      [] OTHER -> Len(path) >= 2 /\ path[1] = pat.name

\* ignore.get_ignored_patterns: the built-in patterns and the lines of
\* .pitignore, when that file exists.
get_ignored_patterns(w) ==
    {NameGlob(DotPit), UnderGlob(DotPit), ExtGlob("pyc"), NameGlob(Name("__pycache__", ""))}
        \cup (IF PitIgnore \in w.files THEN w.ignore ELSE {})

\* ignore.is_ignored: a pattern matches the path or one of its names.
is_ignored(path, ignore_patterns) ==
    \E pat \in ignore_patterns :
        \/ fnmatch(path, pat)
        \/ \E i \in DOMAIN path : fnmatch_part(path[i], pat)

\* clean.run: w is the working tree (its files, its directories and the
\* lines of .pitignore), flags the options f, d and n.
clean_run(r, flags) ==
    LET w == r.wd
        index_files == DOMAIN read_index(r.index)
        ignore_patterns == get_ignored_patterns(w)
        tracked_dirs == UNION {{SubSeq(f, 1, i) : i \in 1..(Len(f) - 1)} : f \in index_files}
        IsCandidateDir(d) == flags.d /\ d \notin tracked_dirs
        Pruned(d) ==
            \/ d[Len(d)] = DotPit
            \/ is_ignored(d, ignore_patterns)
            \/ IsCandidateDir(d)
        \* os.walk reaches a directory when none of the directories on the
        \* way to it was taken out of dirs.
        Walked(d) == \A i \in 1..Len(d) : LET a == SubSeq(d, 1, i) IN a \in w.dirs /\ ~Pruned(a)
        untracked_dirs ==
            {d \in w.dirs : /\ Walked(Parent(d))
                            /\ d[Len(d)] # DotPit
                            /\ ~is_ignored(d, ignore_patterns)
                            /\ IsCandidateDir(d)}
        untracked_files ==
            {f \in w.files : /\ Walked(Parent(f))
                             /\ f \notin index_files
                             /\ ~is_ignored(f, ignore_patterns)}
        items_to_clean == untracked_files \cup untracked_dirs
        Removed(path) == \E item \in items_to_clean : IsUnder(path, item)
        files == {f \in w.files : ~Removed(f)}
        cleaned == [files |-> files,
                    dirs |-> {d \in w.dirs : ~Removed(d)},
                    ignore |-> IF PitIgnore \in files THEN w.ignore ELSE {}]
    IN  IF items_to_clean = {} THEN Outcome(r, 0, "nothing")
        ELSE IF ~flags.f /\ ~flags.n THEN Outcome(r, 0, "would remove")
        ELSE IF flags.n THEN Outcome(r, 0, "would remove")
        ELSE Outcome([r EXCEPT !.wd = cleaned], 0, "removed")

---------------------------------------------------------------------------
(* Initial states *)

NoSnap == [stage |-> "none", index |-> [p \in Paths |-> NoBlob],
           wd |-> [p \in Paths |-> Absent], tracked |-> {}]

Started == [cmd |-> "init", arg |-> "", exit |-> 0, res |-> ""]

\* init.run: HEAD on master, whose ref file is empty; no index, no commits.
InitEmpty ==
    /\ HEAD = Attached("master")
    /\ refs = [b \in Branches |-> IF b = "master" THEN 0 ELSE NoFile]
    /\ index = <<>>
    /\ wd = [p \in Paths |-> Absent]
    /\ commits = <<>>
    /\ stash = <<>>
    /\ blobs = {}
    /\ user \in [name : BOOLEAN, email : BOOLEAN]

MaybeBlob == {NoBlob} \cup Blobs

\* The trees of a diverged history: base, ours, theirs.  Path a takes every
\* combination of absent and two contents, path b is in all three trees,
\* changed on at most one side.
SeedTrees ==
    {<<[p \in Paths |-> IF p = "a" THEN x[1] ELSE y[1]],
       [p \in Paths |-> IF p = "a" THEN x[2] ELSE y[2]],
       [p \in Paths |-> IF p = "a" THEN x[3] ELSE y[3]]>> :
        x \in MaybeBlob \X MaybeBlob \X MaybeBlob,
        y \in {<<1, 1, 1>>, <<1, 1, 2>>, <<1, 2, 1>>}}

\* A repository with history: commit 1 (base) on which commit 2 (feature's
\* tip) and commit 3 (master's tip) were made, HEAD on master, index and
\* working files those of master's tip.  The index is either in the
\* two-field format that checkout, rebase --abort, merge and revert write
\* (master was checked out again), or in the four-field format as add
\* wrote it before master's tip was committed.
InitDiverged ==
    \E t \in SeedTrees :
        /\ commits = <<Commit(t[1], <<>>, UserMsg("base")),
                       Commit(t[3], <<1>>, UserMsg("theirs")),
                       Commit(t[2], <<1>>, UserMsg("ours"))>>
        /\ HEAD = Attached("master")
        /\ refs = [b \in Branches |-> CASE b = "master" -> 3 [] b = "feature" -> 2 [] OTHER -> NoFile]
        /\ \/ index = update_index(AsDict(t[2]))
           \/ index = write_index([p \in DOMAIN AsDict(t[2]) |->
                                     [hash |-> t[2][p], stat |-> RealStat]])
        /\ wd = [p \in Paths |-> read_object(t[2][p])]
        /\ stash = <<>>
        /\ blobs = {t[i][p] : i \in 1..3, p \in Paths} \ {NoBlob}
        /\ user = [name |-> TRUE, email |-> TRUE]

\* The repository init.run leaves, as a value.
EmptyRepo ==
    [HEAD |-> Attached("master"),
     refs |-> [b \in Branches |-> IF b = "master" THEN 0 ELSE NoFile],
     index |-> <<>>, wd |-> [p \in Paths |-> Absent],
     commits |-> <<>>, stash |-> <<>>, rebase |-> NoRebase,
     blobs |-> {}, tags |-> [t \in Tags |-> NoFile],
     user |-> [name |-> TRUE, email |-> TRUE]]

\* A repository whose first stash entry was pushed before its first commit:
\* init, write a, add a, stash push, write a, add a, commit.
StashedEarly(v1, v2) ==
    LET r1 == add_run([EmptyRepo EXCEPT !.wd["a"] = v1], "a").repo
        r2 == stash_push(r1).repo
        r3 == add_run([r2 EXCEPT !.wd["a"] = v2], "a").repo
    IN  commit_run(r3, UserMsg("base")).repo

InitStashedEarly ==
    \E v1, v2 \in Blobs :
        LET r == StashedEarly(v1, v2)
        IN  /\ HEAD = r.HEAD
            /\ refs = r.refs
            /\ index = r.index
            /\ wd = r.wd
            /\ commits = r.commits
            /\ stash = r.stash
            /\ blobs = r.blobs
            /\ user = r.user

Init ==
    /\ InitEmpty \/ InitDiverged \/ InitStashedEarly
    /\ tags = [t \in Tags |-> NoFile]
    /\ objects = {}
    /\ MERGE_HEAD = NoFile
    /\ writers = NoWriters
    /\ rebase = NoRebase
    /\ last = Started
    /\ snap = NoSnap
    /\ steps = 0

---------------------------------------------------------------------------
(* Actions: one per command, and the user's edits of working files *)

Msgs == {"x"}

\* The command's outcome becomes the next state.  No command writes or
\* removes .pit/MERGE_HEAD (mergetool.py only reads it).
Apply(out, cmd, arg, s) ==
    /\ HEAD' = out.repo.HEAD
    /\ refs' = out.repo.refs
    /\ index' = out.repo.index
    /\ wd' = out.repo.wd
    /\ commits' = out.repo.commits
    /\ stash' = out.repo.stash
    /\ rebase' = out.repo.rebase
    /\ blobs' = out.repo.blobs
    /\ objects' = objects
    /\ MERGE_HEAD' = MERGE_HEAD
    /\ writers' = writers
    /\ tags' = out.repo.tags
    /\ user' = out.repo.user
    /\ last' = [cmd |-> cmd, arg |-> arg, exit |-> out.exit, res |-> out.res]
    /\ snap' = s
    /\ steps' = steps + 1

WriteFile ==
    \E p \in Paths, v \in Blobs :
        /\ steps < MaxSteps
        /\ wd[p] # v
        /\ Apply(Outcome([Repo EXCEPT !.wd[p] = v], 0, ""), "write", p, NoSnap)

DeleteFile ==
    \E p \in Paths :
        /\ steps < MaxSteps
        /\ wd[p] # Absent
        /\ Apply(Outcome([Repo EXCEPT !.wd[p] = Absent], 0, ""), "delete", p, NoSnap)

Add ==
    \E p \in Paths :
        /\ steps < MaxSteps
        /\ Apply(add_run(Repo, p), "add", p, NoSnap)

CommitCmd ==
    \E m \in Msgs :
        /\ steps < MaxSteps
        /\ Apply(commit_run(Repo, UserMsg(m)), "commit", m, NoSnap)

Branch ==
    \E b \in Branches :
        /\ steps < MaxSteps
        /\ Apply(branch_run(Repo, b), "branch", b, NoSnap)

Checkout ==
    \E b \in Branches :
        /\ steps < MaxSteps
        /\ Apply(checkout_run(Repo, b, FALSE), "checkout", b, NoSnap)

CheckoutNew ==
    \E b \in Branches :
        /\ steps < MaxSteps
        /\ Apply(checkout_run(Repo, b, TRUE), "checkout -b", b, NoSnap)

Merge ==
    \E b \in Branches :
        /\ steps < MaxSteps
        /\ Apply(merge_run(Repo, b), "merge", b, NoSnap)

\* The upstream arguments tried: every branch name and every commit hash.
Upstreams ==
    {[name |-> b, hash |-> None] : b \in Branches}
        \cup {[name |-> "", hash |-> c] : c \in DOMAIN commits}

Rebase ==
    \E u \in Upstreams :
        \E order \in Orders(linear_set(commits, get_head_commit(HEAD, refs),
                                       upstream_commit_of(Repo, u))) :
            /\ steps < MaxSteps
            /\ Apply(_start_rebase(Repo, u, order), "rebase", u.name, NoSnap)

RebaseContinue ==
    /\ steps < MaxSteps
    /\ Apply(_handle_continue(Repo), "rebase --continue", "", NoSnap)

RebaseAbort ==
    /\ steps < MaxSteps
    /\ Apply(_handle_abort(Repo), "rebase --abort", "", NoSnap)

\* The index and the tracked working files as they are before a push.
Snapshot ==
    [stage |-> "pushed",
     index |-> AsMap(read_index_hashes(index)),
     wd |-> wd,
     tracked |-> DOMAIN get_commit_files(commits, get_head_commit(HEAD, refs))
                    \cup DOMAIN read_index(index)]

StashPush ==
    /\ steps < MaxSteps
    /\ Apply(stash_push(Repo), "stash push", "", Snapshot)

StashPop ==
    /\ steps < MaxSteps
    /\ Apply(stash_pop(Repo), "stash pop", "",
             IF snap.stage = "pushed" THEN [snap EXCEPT !.stage = "popped"] ELSE NoSnap)

\* The revisions tried: HEAD, every branch and tag name, every commit hash
\* and a hash that names no object.
Revisions ==
    {RefName(n) : n \in {"HEAD"} \cup Branches \cup Tags}
        \cup {RefHash(c) : c \in 1..(Len(commits) + 1)}

CherryPick ==
    \E ref \in Revisions :
        /\ steps < MaxSteps
        /\ Apply(cherry_pick_run(Repo, ref), "cherry-pick", ref, NoSnap)

Revert ==
    \E c \in 1..(Len(commits) + 1) :
        /\ steps < MaxSteps
        /\ Apply(revert_run(Repo, c), "revert", RefHash(c), NoSnap)

Reset ==
    \E p \in Paths :
        /\ steps < MaxSteps
        /\ Apply(reset_run(Repo, p), "reset", p, NoSnap)

Tag ==
    \E t \in Tags :
        /\ steps < MaxSteps
        /\ Apply(tag_run(Repo, t), "tag", t, NoSnap)

Config ==
    \E key \in {"name", "email"}, value \in {"", "T"} :
        /\ steps < MaxSteps
        /\ Apply(config_run(Repo, key, value), "config", key, NoSnap)

Next ==
    \/ WriteFile
    \/ DeleteFile
    \/ Add
    \/ CommitCmd
    \/ Branch
    \/ Checkout
    \/ CheckoutNew
    \/ Merge
    \/ Rebase
    \/ RebaseContinue
    \/ RebaseAbort
    \/ StashPush
    \/ StashPop
    \/ CherryPick
    \/ Revert
    \/ Reset
    \/ Tag
    \/ Config

Spec == Init /\ [][Next]_vars

\* The commands taken a family at a time, with the edits and the staging
\* and committing a user does between them.
\* The revisions asked for: HEAD in two spellings, a name, short hashes in
\* both cases, a string too short to be a short hash, and full hashes.
RefTexts ==
    {Text_HEAD, Text_head, Text_abcd, Text_ABCD, Text_abce,
     SubSeq(HashA, 1, 5), SubSeq(HashC, 1, 4), SubSeq(HashA, 1, 3),
     HashA, UpperText(HashA), HashC}

\* A repository for the resolution of revisions: branch files named "head"
\* and "abcd", tag files named "abcd" and as HashA is spelled, objects of any
\* kind under the three names, and HEAD with or without a commit.
InitResolve ==
    /\ refs \in [{Text_head, Text_abcd} -> {NoRefFile, RefFile(<<>>), RefFile(HashC)}]
    /\ tags \in [{Text_abcd, HashA} -> {NoRefFile, RefFile(HashB)}]
    /\ \E kinds \in [HashPool -> Kinds \cup {"none"}] :
          objects = {StoredObject(h, kinds[h]) : h \in {g \in HashPool : kinds[g] # "none"}}
    /\ HEAD \in {[ref |-> "", hash |-> <<>>], [ref |-> "", hash |-> HashC]}
    /\ index = <<>>
    /\ wd = [p \in Paths |-> Absent]
    /\ commits = <<>>
    /\ stash = <<>>
    /\ rebase = NoRebase
    /\ blobs = {}
    /\ MERGE_HEAD = NoFile
    /\ writers = NoWriters
    /\ user = [name |-> TRUE, email |-> TRUE]
    /\ last = Started
    /\ snap = NoSnap
    /\ steps = 0

\* One call of _resolve_ref.
ResolveRef ==
    \E ref \in RefTexts :
        /\ steps < MaxSteps
        /\ LET out == resolve_ref_text(HEAD.hash, refs, tags, objects, ref)
           IN  last' = [cmd |-> "resolve", arg |-> ref,
                        exit |-> IF out.status = "resolved" THEN 0 ELSE 1, res |-> out]
        /\ steps' = steps + 1
        /\ UNCHANGED <<HEAD, refs, index, wd, commits, stash, rebase, blobs, objects, tags, MERGE_HEAD, writers, user, snap>>

SpecResolve == InitResolve /\ [][ResolveRef]_vars

\* Processes that write and read the same objects at the same time.
RaceData == {ObjectData(x, "blob") : x \in Payloads}

InitRace ==
    /\ InitEmpty
    /\ tags = [t \in Tags |-> NoFile]
    /\ \E had \in {s \in SUBSET RaceData : Cardinality(s) <= 1} :
          objects = {WholeFile(sha1(d), compress(d)) : d \in had}
    /\ MERGE_HEAD = NoFile
    /\ writers = NoWriters
    /\ rebase = NoRebase
    /\ last = Started
    /\ snap = NoSnap
    /\ steps = 0

RaceFrame == UNCHANGED <<HEAD, refs, index, wd, commits, stash, rebase, blobs, tags, MERGE_HEAD, user, snap>>

\* hash_object, line 23: open(object_path, 'wb').
RaceOpen ==
    \E w \in Procs, d \in RaceData :
        /\ steps < MaxSteps
        /\ writers[w].at = "idle"
        /\ objects' = OpenForWriting(objects, sha1(d), compress(d))
        /\ writers' = [writers EXCEPT ![w] = [at |-> "open", data |-> d, off |-> 0]]
        /\ last' = [cmd |-> "open", arg |-> sha1(d), exit |-> 0, res |-> ""]
        /\ steps' = steps + 1
        /\ RaceFrame

\* hash_object, line 24: f.write(...), one piece of it.
RaceWrite ==
    \E w \in Procs :
        /\ steps < MaxSteps
        /\ writers[w].at = "open"
        /\ writers[w].off < MaxChunks
        /\ objects' = WriteChunk(objects, sha1(writers[w].data), writers[w].off + 1)
        /\ writers' = [writers EXCEPT ![w].off = @ + 1]
        /\ last' = [cmd |-> "write", arg |-> sha1(writers[w].data), exit |-> 0, res |-> ""]
        /\ steps' = steps + 1
        /\ RaceFrame

\* hash_object, the end of the with block: the file is closed.
RaceClose ==
    \E w \in Procs :
        /\ steps < MaxSteps
        /\ writers[w].at = "open"
        /\ writers[w].off = MaxChunks
        /\ writers' = [writers EXCEPT ![w] = Idle]
        /\ last' = [cmd |-> "close", arg |-> sha1(writers[w].data), exit |-> 0, res |-> ""]
        /\ steps' = steps + 1
        /\ UNCHANGED objects
        /\ RaceFrame

\* read_object in a further process.
RaceRead ==
    \E d \in RaceData :
        /\ steps < MaxSteps
        /\ LET out == read_object_racing(objects, sha1(d))
           IN  last' = [cmd |-> "read_object", arg |-> sha1(d),
                        exit |-> IF out \in {NotFound, ZlibError} THEN 1 ELSE 0, res |-> out]
        /\ steps' = steps + 1
        /\ UNCHANGED <<objects, writers>>
        /\ RaceFrame

NextRace ==
    \/ RaceOpen
    \/ RaceWrite
    \/ RaceClose
    \/ RaceRead

SpecRace == InitRace /\ [][NextRace]_vars

\* The working trees clean is run on: some of these files, of which t and
\* td/t2 may be tracked and the .log files ignored through .pitignore, and
\* possibly an empty directory.
CleanTracked == {<<Name("t", "")>>, <<Name("td", ""), Name("t2", "")>>}
CleanFiles ==
    CleanTracked \cup
    {<<Name("u", "")>>, <<Name("i", "log")>>, PitIgnore,
     <<Name("td", ""), Name("u3", "")>>,
     <<Name("dir", ""), Name("u2", "")>>, <<Name("dir", ""), Name("keep", "log")>>}
PitFiles == {<<DotPit, Name("index", "")>>}
CleanFlags == [f : BOOLEAN, d : BOOLEAN, n : BOOLEAN]

InitClean ==
    /\ \E fs \in SUBSET CleanFiles, empty \in SUBSET {<<Name("ed", "")>>}, pats \in SUBSET {ExtGlob("log")} :
          wd = [files |-> fs \cup PitFiles,
                dirs |-> ({Parent(f) : f \in fs \cup PitFiles} \cup empty) \ {<<>>},
                ignore |-> IF PitIgnore \in fs THEN pats ELSE {}]
    /\ \E tr \in SUBSET CleanTracked :
          index = SelectSeq(<<Line(1, RealStat, <<Name("t", "")>>),
                              Line(1, RealStat, <<Name("td", ""), Name("t2", "")>>)>>,
                            LAMBDA l : l.path \in tr)
    /\ HEAD = [ref |-> "master", hash |-> None]
    /\ refs = [b \in Branches |-> NoFile]
    /\ tags = [t \in Tags |-> NoFile]
    /\ objects = {}
    /\ commits = <<>>
    /\ stash = <<>>
    /\ rebase = NoRebase
    /\ blobs = {}
    /\ MERGE_HEAD = NoFile
    /\ writers = NoWriters
    /\ user = [name |-> TRUE, email |-> TRUE]
    /\ last = Started
    /\ snap = NoSnap
    /\ steps = 0

\* pit clean with any of its options.
Clean ==
    \E flags \in CleanFlags :
        /\ steps < MaxSteps
        /\ Apply(clean_run(Repo, flags), "clean", flags, NoSnap)

SpecClean == InitClean /\ [][Clean]_vars

\* An index as add writes it, its lines sorted by path, over paths with
\* directory parts; nothing else in the repository.
InitTree ==
    /\ \E n \in 0..MaxEntries :
          \E ps \in [1..n -> TreePaths], hs \in [1..n -> BlobHashes] :
              /\ \A i \in 1..(n - 1) : StrLess(ps[i], ps[i + 1])
              /\ index = [i \in 1..n |-> Line(hs[i], RealStat, ps[i])]
    /\ HEAD = Attached("master")
    /\ refs = [b \in Branches |-> IF b = "master" THEN 0 ELSE NoFile]
    /\ wd = [p \in Paths |-> Absent]
    /\ commits = <<>>
    /\ stash = <<>>
    /\ rebase = NoRebase
    /\ blobs = {}
    /\ objects = {}
    /\ MERGE_HEAD = NoFile
    /\ writers = NoWriters
    /\ tags = [t \in Tags |-> NoFile]
    /\ user = [name |-> TRUE, email |-> TRUE]
    /\ last = Started
    /\ snap = NoSnap
    /\ steps = 0

\* Build the tree from the index, write it, and read the files of a commit
\* that points at it.
TreeRoundTrip ==
    /\ steps < MaxSteps
    /\ LET out == tree_round_trip(index)
       IN  last' = [cmd |-> "tree", arg |-> "", exit |-> IF out.ok THEN 0 ELSE 1,
                    res |-> out]
    /\ steps' = steps + 1
    /\ UNCHANGED <<HEAD, refs, index, wd, commits, stash, rebase, blobs, objects, tags, MERGE_HEAD, writers, user, snap>>

SpecTree == InitTree /\ [][TreeRoundTrip]_vars

\* One call of hash_object on a payload and a kind; the step records whether
\* an object of that name was in the store before the call.
HashObject ==
    \E x \in Payloads, k \in Kinds, write \in BOOLEAN :
        /\ steps < MaxSteps
        /\ LET out == hash_object_bytes(objects, x, k, write)
           IN  /\ objects' = out.store
               /\ last' = [cmd |-> "hash_object",
                           arg |-> [content |-> x, kind |-> k, write |-> write,
                                    stored |-> \E f \in objects : f.name = out.sha1],
                           exit |-> 0, res |-> out.sha1]
        /\ steps' = steps + 1
        /\ UNCHANGED <<HEAD, refs, index, wd, commits, stash, rebase, blobs, tags, MERGE_HEAD, writers, user, snap>>

\* A few of the initial states, the identity set: the repository of init;
\* one whose first stash entry is older than its first commit; and diverged
\* histories in which master changed path a and feature either changed
\* path b or deleted path a.
InitFew ==
    /\ Init
    /\ get_user_config(Repo)
    /\ stash # <<>> => commits[1].tree["a"] = 2 /\ wd["a"] = 2
    /\ Len(commits) = 3 =>
          /\ commits[1].tree["a"] = 1
          /\ commits[3].tree["a"] = 2
          /\ <<commits[2].tree["a"], commits[2].tree["b"]>>
                \in {<<1, 2>>, <<NoBlob, 1>>}
          /\ commits[3].tree["b"] = 1

\* The object store under the commands and under direct writes.
NextObjects ==
    \/ HashObject
    \/ Next

SpecObjects == InitFew /\ [][NextObjects]_vars

\* Every command, from the few initial states.
SpecAll == InitFew /\ [][Next]_vars

NextMerge ==
    \/ WriteFile
    \/ DeleteFile
    \/ Add
    \/ CommitCmd
    \/ Branch
    \/ Merge

SpecMerge == Init /\ [][NextMerge]_vars

NextCheckout ==
    \/ WriteFile
    \/ DeleteFile
    \/ Add
    \/ CommitCmd
    \/ Branch
    \/ Checkout
    \/ CheckoutNew

SpecCheckout == Init /\ [][NextCheckout]_vars

NextRebase ==
    \/ WriteFile
    \/ Add
    \/ CommitCmd
    \/ Rebase
    \/ RebaseContinue
    \/ RebaseAbort

SpecRebase == Init /\ [][NextRebase]_vars

\* A rebase that is stopped from outside at some point after it has saved
\* its state.
RebaseInterrupted ==
    \E u \in Upstreams, stage \in Range(RebaseStages) :
        \E order \in Orders(linear_set(commits, get_head_commit(HEAD, refs),
                                       upstream_commit_of(Repo, u))) :
            /\ steps < MaxSteps
            /\ Apply(_start_rebase_interrupted(Repo, u, order, stage), "rebase", u.name, NoSnap)

NextInterrupt ==
    \/ RebaseInterrupted
    \/ RebaseAbort

SpecInterrupt == Init /\ [][NextInterrupt]_vars

\* Rebase with changes of the configured identity in between.
NextIdentity ==
    \/ Config
    \/ Rebase
    \/ RebaseContinue

SpecIdentity == Init /\ [][NextIdentity]_vars

\* Rebase with branch switches in between.
NextRebaseSwitch ==
    \/ NextRebase
    \/ Checkout

SpecRebaseSwitch == Init /\ [][NextRebaseSwitch]_vars

NextStash ==
    \/ WriteFile
    \/ DeleteFile
    \/ Add
    \/ CommitCmd
    \/ StashPush
    \/ StashPop

SpecStash == Init /\ [][NextStash]_vars

\* Commit graphs: commit i has no parent, one earlier commit as parent, or
\* two different earlier commits (a merge).
ParentLists(i) ==
    {<<>>} \cup {<<p>> : p \in 1..(i - 1)}
           \cup {pq \in (1..(i - 1)) \X (1..(i - 1)) : pq[1] # pq[2]}

RECURSIVE Graphs(_)
\* The parent lists of the graphs of n commits.
Graphs(n) ==
    IF n = 0 THEN {<<>>}
    ELSE {Append(g, ps) : g \in Graphs(n - 1), ps \in ParentLists(n)}

InitGraph ==
    /\ \E n \in 1..MaxCommits :
          \E d \in Graphs(n) :
              commits = [i \in 1..n |->
                            Commit([p \in Paths |-> NoBlob], d[i], UserMsg("x"))]
    /\ HEAD = Detached(1)
    /\ refs = [b \in Branches |-> NoFile]
    /\ index = <<>>
    /\ wd = [p \in Paths |-> Absent]
    /\ stash = <<>>
    /\ rebase = NoRebase
    /\ blobs = {}
    /\ objects = {}
    /\ MERGE_HEAD = NoFile
    /\ writers = NoWriters
    /\ tags = [t \in Tags |-> NoFile]
    /\ user = [name |-> TRUE, email |-> TRUE]
    /\ last = Started
    /\ snap = NoSnap
    /\ steps = 0

\* One call of _find_common_ancestor on two commits of the graph.
FindCommonAncestor ==
    \E c1, c2 \in DOMAIN commits :
        /\ steps < MaxSteps
        /\ last' = [cmd |-> "lca", arg |-> <<c1, c2>>, exit |-> 0,
                    res |-> _find_common_ancestor(commits, c1, c2)]
        /\ steps' = steps + 1
        /\ UNCHANGED <<HEAD, refs, index, wd, commits, stash, rebase, blobs, objects, tags, MERGE_HEAD, writers, user, snap>>

SpecLca == InitGraph /\ [][FindCommonAncestor]_vars

\* One call of _collect_commits_to_replay on two commits of the graph, the
\* set being iterated in any order.
CollectCommitsToReplay ==
    \E head, upstream \in DOMAIN commits :
        \E order \in Orders(linear_set(commits, head, upstream)) :
            /\ steps < MaxSteps
            /\ last' = [cmd |-> "collect", arg |-> <<head, upstream>>, exit |-> 0,
                         res |-> _topological_sort(commits, order)]
            /\ steps' = steps + 1
            /\ UNCHANGED <<HEAD, refs, index, wd, commits, stash, rebase, blobs, objects, tags, MERGE_HEAD, writers, user, snap>>

SpecReplay == InitGraph /\ [][CollectCommitsToReplay]_vars

NextPick ==
    \/ WriteFile
    \/ Add
    \/ CommitCmd
    \/ Tag
    \/ CherryPick

SpecPick == Init /\ [][NextPick]_vars

NextRevert ==
    \/ WriteFile
    \/ DeleteFile
    \/ Add
    \/ Reset
    \/ CommitCmd
    \/ Revert

SpecRevert == Init /\ [][NextRevert]_vars

NextCommit ==
    \/ WriteFile
    \/ DeleteFile
    \/ Add
    \/ Reset
    \/ Config
    \/ CommitCmd

SpecCommit == Init /\ [][NextCommit]_vars

---------------------------------------------------------------------------
(* The three-way table as the specification states it *)

Conflict == 0 - 1

\* Keep ours when both sides agree; when ours is the base take theirs (absent
\* deletes); when theirs is the base keep ours (absent deletes); else conflict.
TableResult(b, o, t) ==
    IF o = t THEN o
    ELSE IF b = o THEN t
    ELSE IF b = t THEN o
    ELSE Conflict

TreeAt(cs, c) == AsMap(get_commit_files(cs, c))

\* A merge of branch b reaches the three-way step: b is another branch with
\* a commit, HEAD has a commit and the two have a common ancestor.
MergeApplies(b) ==
    /\ b \in Branches
    /\ get_current_branch(HEAD) # b
    /\ get_branch_commit(refs, b) # None
    /\ get_head_commit(HEAD, refs) # None
    /\ _find_common_ancestor(commits, get_head_commit(HEAD, refs), get_branch_commit(refs, b)) # None

\* The table's result for path p when branch b is merged into HEAD.
MergedAt(b, p) ==
    LET O == get_head_commit(HEAD, refs)
        T == get_branch_commit(refs, b)
        B == _find_common_ancestor(commits, O, T)
    IN  TableResult(TreeAt(commits, B)[p], TreeAt(commits, O)[p], TreeAt(commits, T)[p])

MergedMap(b) == [p \in Paths |-> MergedAt(b, p)]

\* The merge that led to the next state, if the step is one.
MergeStep == last'.cmd = "merge" /\ MergeApplies(last'.arg)

---------------------------------------------------------------------------
(* Claims on merge *)

\* C1: when a merge of branch tip T into HEAD commit O finds no conflicting
\* path, the index after the merge is the merged path -> hash map of the
\* three-way table over (LCA(O, T), O, T), and the merge commit recorded has
\* parents exactly <<O, T>> and that merged map as its tree.
C1_MergeRecordsMergedMap ==
    [][(MergeStep /\ \A p \in Paths : MergedAt(last'.arg, p) # Conflict) =>
          LET new == Len(commits) + 1
          IN  /\ build_tree_from_index(index') = MergedMap(last'.arg)
              /\ Len(commits') = new
              /\ get_head_commit(HEAD', refs') = new
              /\ commits'[new].parents = <<get_head_commit(HEAD, refs),
                                           get_branch_commit(refs, last'.arg)>>
              /\ commits'[new].tree = MergedMap(last'.arg)]_vars

\* C2: when at least one path conflicts, merge records no commit: HEAD and
\* every branch ref are as before the merge, and the command exits non-zero.
C2_ConflictRecordsNothing ==
    [][(MergeStep /\ \E p \in Paths : MergedAt(last'.arg, p) = Conflict) =>
          /\ commits' = commits
          /\ HEAD' = HEAD
          /\ refs' = refs
          /\ last'.exit # 0]_vars

\* A merge ended in conflict: a working file holds the marker block.
C2_Witness ==
    /\ last.cmd = "merge"
    /\ last.res = "conflict"
    /\ \E p \in Paths : wd[p] > 100

\* C3: for every path and every base blob b, ours blob o and theirs blob t
\* (each possibly absent) the merge keeps ours when o = t (the file is left
\* alone), takes theirs when b = o (deleting the path when theirs is absent),
\* keeps ours when b = t (deleting when ours is absent), and otherwise
\* reports a conflict; a path's result is one whole side, absence, or a
\* conflict.
C3_MergeFollowsTable ==
    [][MergeStep =>
          /\ last'.res = "conflict" <=> \E p \in Paths : MergedAt(last'.arg, p) = Conflict
          /\ \A p \in Paths :
                LET O == get_head_commit(HEAD, refs)
                    T == get_branch_commit(refs, last'.arg)
                    o == TreeAt(commits, O)[p]
                    t == TreeAt(commits, T)[p]
                    res == MergedAt(last'.arg, p)
                IN  /\ res = Conflict => wd'[p] = ConflictText(o, t)
                    /\ (res # Conflict /\ o = t) => wd'[p] = wd[p]
                    /\ (res # Conflict /\ o # t) =>
                           wd'[p] = (IF res = NoBlob THEN Absent ELSE read_object(res))
                    /\ res \in {o, t, Conflict}]_vars

\* A merge took theirs for a path on which the two tips differ.
C3_Witness ==
    /\ last.cmd = "merge"
    /\ last.exit = 0
    /\ commits # <<>>
    /\ LET m == commits[Len(commits)]
       IN  /\ Len(m.parents) = 2
           /\ \E p \in Paths :
                 /\ commits[m.parents[1]].tree[p] # commits[m.parents[2]].tree[p]
                 /\ commits[m.parents[2]].tree[p] # NoBlob
                 /\ wd[p] = read_object(commits[m.parents[2]].tree[p])

---------------------------------------------------------------------------
(* Claims on commit and checkout *)

\* The path -> hash map of the index: per path the hash of its last line.
IndexMap(idx) ==
    [p \in Paths |->
        IF \E i \in DOMAIN idx : idx[i].path = p
        THEN idx[CHOOSE i \in DOMAIN idx :
                    idx[i].path = p /\ \A j \in DOMAIN idx : idx[j].path = p => j <= i].hash
        ELSE NoBlob]

\* C4: after a successful commit, get_head_commit() is the new commit, whose
\* tree is the tree of the index at commit time and whose parent list is the
\* HEAD commit from before (empty for the first commit, else one element).
C4_CommitRecordsIndexOnHead ==
    [][(last'.cmd = "commit" /\ last'.exit = 0) =>
          LET new == Len(commits) + 1
              before == get_head_commit(HEAD, refs)
          IN  /\ Len(commits') = new
              /\ get_head_commit(HEAD', refs') = new
              /\ commits'[new].tree = IndexMap(index)
              /\ commits'[new].parents = (IF before = None THEN <<>> ELSE <<before>>)]_vars

\* A commit was recorded on top of an earlier one.
C4_Witness ==
    /\ last.cmd = "commit"
    /\ last.exit = 0
    /\ get_head_commit(HEAD, refs) = Len(commits)
    /\ Len(commits[Len(commits)].parents) = 1

\* C5: create_branch(b, c) makes b point to c, and a successful checkout of
\* a branch b pointing to c leaves get_current_branch() = b and
\* get_head_commit() = c; so does checkout -b, which creates b at HEAD's commit.
C5_CheckoutAttachesToBranch ==
    [][/\ (last'.cmd = "branch" /\ last'.exit = 0) =>
              get_branch_commit(refs', last'.arg) = get_head_commit(HEAD, refs)
       /\ (last'.cmd = "checkout" /\ last'.exit = 0) =>
              /\ get_current_branch(HEAD') = last'.arg
              /\ get_head_commit(HEAD', refs') = get_branch_commit(refs, last'.arg)
       /\ (last'.cmd = "checkout -b" /\ last'.exit = 0) =>
              /\ get_current_branch(HEAD') = last'.arg
              /\ get_head_commit(HEAD', refs') = get_head_commit(HEAD, refs)]_vars

\* A branch that only create_branch can have made was checked out.
C5_Witness ==
    /\ last.cmd = "checkout"
    /\ last.res = "switched"
    /\ last.arg = "topic"
    /\ get_current_branch(HEAD) = "topic"
    /\ get_head_commit(HEAD, refs) = 3

\* The clean-tree predicate: HEAD's tree equals the index, every indexed
\* path's working file hashes to the indexed hash, and none is missing.
CleanTree ==
    /\ TreeAt(commits, get_head_commit(HEAD, refs)) = IndexMap(index)
    /\ \A p \in Paths :
          IndexMap(index)[p] # NoBlob =>
              wd[p] # Absent /\ hash_object(wd[p]) = IndexMap(index)[p]

\* C6: a branch switch (checkout b to another branch, or checkout -b b)
\* attempted while the clean-tree predicate is false is refused and changes
\* nothing: HEAD, the branch refs, the index and the working files stay.
C6_DirtySwitchChangesNothing ==
    [][(/\ ~CleanTree
        /\ \/ last'.cmd = "checkout -b"
           \/ /\ last'.cmd = "checkout"
              /\ _is_branch(refs, last'.arg)
              /\ last'.arg # get_current_branch(HEAD)) =>
          /\ last'.exit # 0
          /\ HEAD' = HEAD
          /\ refs' = refs
          /\ index' = index
          /\ wd' = wd]_vars

---------------------------------------------------------------------------
(* Claims on rebase *)

\* The commits reachable from HEAD and not from the upstream the rebase
\* that led to the next state was given.
ReplaySet(U) ==
    _get_reachable_commits(commits, get_head_commit(HEAD, refs))
        \ _get_reachable_commits(commits, U)

\* fs lists the set F with every commit after its parents.
ParentsFirst(fs, F) ==
    /\ Range(fs) = F
    /\ Len(fs) = Cardinality(F)
    /\ \A i, j \in DOMAIN fs :
          fs[i] \in Range(commits[fs[j]].parents) => i < j

\* C7: a conflict-free rebase of the current branch F, with commits F1..Fn
\* reachable from HEAD and not from the upstream tip U, ends with HEAD
\* attached to F, F's ancestry being U followed by one new commit per Fi in
\* order, each with the message and the tree of its Fi, the state directory
\* removed and the original commits still in the store.
C7_RebaseReplaysEachCommit ==
    [][(last'.cmd = "rebase" /\ last'.res = "rebased") =>
          \E u \in Upstreams :
             /\ u.name = last'.arg
             /\ LET F == get_current_branch(HEAD)
                    U == upstream_commit_of(Repo, u)
                    n == Cardinality(ReplaySet(U))
                    old == Len(commits)
                IN  /\ HEAD' = Attached(F)
                    /\ rebase' = NoRebase
                    /\ Len(commits') = old + n
                    /\ \A c \in DOMAIN commits : commits'[c] = commits[c]
                    /\ refs'[F] = old + n
                    /\ \E fs \in [1..n -> ReplaySet(U)] :
                          /\ ParentsFirst(fs, ReplaySet(U))
                          /\ \A i \in 1..n :
                                /\ commits'[old + i].parents = <<IF i = 1 THEN U ELSE old + i - 1>>
                                /\ commits'[old + i].msg = commits[fs[i]].msg
                                /\ commits'[old + i].tree = commits[fs[i]].tree]_vars

\* C8: from any paused rebase, rebase --abort restores the state from before
\* the rebase: HEAD attached to head-name, that branch at orig-head, the
\* index and every working file of orig-head's tree equal to that tree, and
\* the state directory gone.
C8_AbortRestoresOrigHead ==
    [][(last'.cmd = "rebase --abort" /\ rebase.active) =>
          LET tree == TreeAt(commits, rebase.origHead)
          IN  /\ HEAD' = Attached(rebase.headName)
              /\ get_branch_commit(refs', rebase.headName) = rebase.origHead
              /\ IndexMap(index') = tree
              /\ \A p \in Paths : tree[p] # NoBlob => wd'[p] = read_object(tree[p])
              /\ rebase' = NoRebase]_vars

\* The step is a rebase --continue with a conflicted commit at the head of
\* the commits file.
ContinueStep == last'.cmd = "rebase --continue" /\ rebase.active /\ rebase.commits # <<>>

---------------------------------------------------------------------------
(* Claims on stash *)

\* C10: stash push immediately followed by stash pop leaves the index
\* (path -> hash) and the content of every tracked working file as they
\* were before the push, whatever was staged, modified or deleted.
C10_PushPopRoundTrip ==
    snap.stage = "popped" =>
        /\ IndexMap(index) = snap.index
        /\ \A p \in snap.tracked : wd[p] = snap.wd[p]

\* The stash entry on top of the stack, and the commit holding the index
\* that was stashed with an entry.
TopEntry == stash[Len(stash)]
IndexCommitOf(e) ==
    CHOOSE c \in Range(commits[e].parents) : commits[c].msg.kind = "index on"

\* The working files of entry e are on disk in the next state.
WorkdirRestoredFrom(e) ==
    \A p \in Paths :
        commits[e].tree[p] # NoBlob => wd'[p] = read_object(commits[e].tree[p])

PopStep == last'.cmd = "stash pop" /\ last'.res = "popped"

\* C11: the stash log is a stack: every push appends the entry it made as
\* the last line, so the lines are in push order; a successful pop writes
\* the working files of the last line's entry (the most recent push not yet
\* popped) and removes exactly that line, the earlier lines staying in order.
C11_StashIsLifo ==
    [][/\ last'.cmd = "stash push" =>
              /\ stash' = Append(stash, Len(commits'))
              /\ Len(commits') > Len(commits)
       /\ PopStep =>
              /\ stash # <<>>
              /\ WorkdirRestoredFrom(TopEntry)
              /\ stash' = SubSeq(stash, 1, Len(stash) - 1)
       /\ \A i, j \in DOMAIN stash' : i < j => stash'[i] < stash'[j]]_vars

\* After two pushes a pop took the second entry and left the first.
C11_Witness ==
    /\ last.cmd = "stash pop"
    /\ last.res = "popped"
    /\ Len(stash) = 1
    /\ \E e \in DOMAIN commits :
          /\ e > stash[1]
          /\ commits[e].msg.kind = "WIP on"
          /\ \E p \in Paths : commits[e].tree[p] # commits[stash[1]].tree[p]

\* C12: after stash push the index equals HEAD's tree, every tracked working
\* file (in HEAD's tree or in the index before the push) equals its HEAD
\* version, a staged new file being removed from disk, and the stash stack is
\* exactly one entry longer.
C12_PushResetsToHead ==
    [][last'.cmd = "stash push" =>
          LET head == TreeAt(commits, get_head_commit(HEAD, refs))
          IN  /\ IndexMap(index') = head
              /\ \A p \in Paths :
                    (head[p] # NoBlob \/ IndexMap(index)[p] # NoBlob) =>
                        wd'[p] = (IF head[p] # NoBlob THEN read_object(head[p]) ELSE Absent)
              /\ Len(stash') = Len(stash) + 1]_vars

\* C13: stash pop on a tree that is not clean relative to HEAD leaves the
\* stash stack, the index and the working files unchanged; and whenever a
\* pop removes a stack entry, the working files and the index of the next
\* state are the ones stashed with that entry.
C13_PopRestoresBeforeDropping ==
    [][last'.cmd = "stash pop" =>
          /\ ~CleanTree => (stash' = stash /\ index' = index /\ wd' = wd)
          /\ stash' # stash =>
                /\ WorkdirRestoredFrom(TopEntry)
                /\ IndexMap(index') = commits[IndexCommitOf(TopEntry)].tree]_vars

---------------------------------------------------------------------------
(* Claims on cherry-pick and revert *)

\* The commit a cherry-pick's argument names, and its parent (None for a
\* first commit).
PickTarget == _resolve_ref(Repo, last'.arg)
PickBase == IF commits[PickTarget].parents = <<>> THEN None ELSE commits[PickTarget].parents[1]

\* The step is a cherry-pick of a commit with at most one parent onto a
\* HEAD commit, on a clean tree, and by the three-way table no path
\* conflicts.
ConflictFreePick ==
    /\ last'.cmd = "cherry-pick"
    /\ PickTarget \in DOMAIN commits
    /\ Len(commits[PickTarget].parents) <= 1
    /\ get_head_commit(HEAD, refs) # None
    /\ CleanTree
    /\ \A p \in Paths :
          TableResult(TreeAt(commits, PickBase)[p],
                      TreeAt(commits, get_head_commit(HEAD, refs))[p],
                      commits[PickTarget].tree[p]) # Conflict

\* C14: a conflict-free cherry-pick of C (at most one parent) records one new
\* commit on the current branch whose only parent is the previous HEAD, whose
\* message is C's, and whose tree is the previous HEAD's tree with C's
\* version of every path that C changed relative to parent(C), and nothing
\* else changed.
C14_PickAppliesTheCommitsChange ==
    [][ConflictFreePick =>
          LET new == Len(commits) + 1
              H == get_head_commit(HEAD, refs)
              C == PickTarget
          IN  /\ last'.exit = 0
              /\ Len(commits') = new
              /\ HEAD' = HEAD
              /\ get_head_commit(HEAD', refs') = new
              /\ commits'[new].parents = <<H>>
              /\ commits'[new].msg = commits[C].msg
              /\ \A p \in Paths :
                    commits'[new].tree[p] =
                        (IF commits[C].tree[p] # TreeAt(commits, PickBase)[p]
                         THEN commits[C].tree[p] ELSE commits[H].tree[p])]_vars

\* C15: on a linear history, revert C run right after C was committed (HEAD
\* is C, which has one parent, and the tree is clean) records a commit whose
\* tree is the tree of parent(C), whether C added, deleted or modified paths.
C15_RevertOfHeadGivesParentTree ==
    [][(/\ last'.cmd = "revert"
        /\ last'.arg.hash \in DOMAIN commits
        /\ get_head_commit(HEAD, refs) = last'.arg.hash
        /\ Len(commits[last'.arg.hash].parents) = 1
        /\ CleanTree) =>
          LET new == Len(commits) + 1
              P == commits[last'.arg.hash].parents[1]
          IN  /\ last'.exit = 0
              /\ Len(commits') = new
              /\ get_head_commit(HEAD', refs') = new
              /\ commits'[new].tree = commits[P].tree]_vars

---------------------------------------------------------------------------
(* Claims on the common ancestor *)

RECURSIVE AncestorsUpTo(_, _)
\* The commits reachable through parent links from the set S, S included.
AncestorsUpTo(cs, S) ==
    LET T == S \cup UNION {Range(cs[c].parents) : c \in S}
    IN  IF T = S THEN S ELSE AncestorsUpTo(cs, T)

\* C16: for all commits a and b of a commit graph, lca(a, a) = a, and when
\* lca(a, b) answers a commit, that commit is reachable through parent links
\* from a and from b.
C16_LcaIsCommonAncestor ==
    last.cmd = "lca" =>
        LET a == last.arg[1]
            b == last.arg[2]
        IN  /\ a = b => last.res = a
            /\ last.res # None =>
                  /\ last.res \in AncestorsUpTo(commits, {a})
                  /\ last.res \in AncestorsUpTo(commits, {b})

\* The search answered a commit that is neither of the two it started from.
C16_Witness ==
    /\ last.cmd = "lca"
    /\ last.res # None
    /\ last.res # last.arg[1]
    /\ last.res # last.arg[2]

---------------------------------------------------------------------------
(* Claims on the object store *)

\* The commit objects of before are the commit objects of after, unchanged.
CommitsKept ==
    /\ Len(commits') >= Len(commits)
    /\ \A c \in DOMAIN commits : commits'[c] = commits[c]

\* C17: the object store is a write-once map.  Reading back what hash_object
\* wrote gives the kind and the payload written, for every payload and kind;
\* writing content that is already stored leaves the store as it was; and no
\* step, a command or a write, removes an object or changes what is stored
\* under a name that is already there.
C17_StoreIsWriteOnce ==
    [][ /\ \A f \in objects : f \in objects'
        /\ blobs \subseteq blobs'
        /\ CommitsKept
        /\ (last'.cmd = "hash_object" /\ steps' = steps + 1 /\ last'.arg.write) =>
              /\ read_object_bytes(objects', last'.res)
                   = [type |-> last'.arg.kind, content |-> last'.arg.content]
              /\ last'.arg.stored => objects' = objects
      ]_vars

\* C17 witness: a payload that holds a NUL has been written a second time,
\* in a repository whose commands stored blobs.
C17_Witness ==
    /\ last.cmd = "hash_object"
    /\ last.arg.write
    /\ last.arg.stored
    /\ \E i \in DOMAIN last.arg.content : last.arg.content[i] = NUL
    /\ objects # {}
    /\ blobs # {}
    /\ steps = MaxSteps

---------------------------------------------------------------------------
(* Claims on the references *)

IsStoredCommit(h) == h \in DOMAIN commits
IsStoredBlob(h) == h \in blobs

\* C18: after any sequence of commands, every hash held by HEAD, a branch
\* ref, a tag, the stash log or an index entry names an object of the store,
\* a commit for the refs and a blob for the index entries; and HEAD is either
\* attached to a branch, whose commit may be None, or holds a commit hash.
C18_HashesResolve ==
    /\ \/ HEAD.ref \in Branches /\ HEAD.hash = None
       \/ HEAD.ref = "" /\ IsStoredCommit(HEAD.hash)
    /\ get_head_commit(HEAD, refs) # None => IsStoredCommit(get_head_commit(HEAD, refs))
    /\ \A b \in Branches : refs[b] \notin {NoFile, None} => IsStoredCommit(refs[b])
    /\ \A t \in Tags : tags[t] # NoFile => IsStoredCommit(tags[t])
    /\ \A i \in DOMAIN stash : IsStoredCommit(stash[i])
    /\ \A i \in DOMAIN index : IsStoredBlob(index[i].hash)

\* C18 witness: commands have left a tag, a stash entry and an index entry
\* for a blob that add wrote.
C18_Witness ==
    /\ \E t \in Tags : tags[t] # NoFile
    /\ stash # <<>>
    /\ \E i \in DOMAIN index : index[i].stat = RealStat
    /\ last.cmd = "add"
    /\ last.res = "added"

---------------------------------------------------------------------------
(* Claims on trees *)

\* The map {path -> hash} of the index entries.
IndexEntries ==
    [p \in {index[i].path : i \in DOMAIN index} |->
        index[CHOOSE i \in DOMAIN index : index[i].path = p].hash]

\* C19: for any index, building the nested tree from it, writing the tree
\* and reading the files of a commit that points at the tree gives exactly
\* the map {path -> hash} of the index entries, at any directory depth.
C19_TreeRoundTrip ==
    last.cmd = "tree" => last.res.ok /\ last.res.files = IndexEntries

---------------------------------------------------------------------------
(* Claims on the errors of commit *)

\* C20: commit with an empty or missing index, or with no user name or no
\* email configured, fails and leaves HEAD, every branch ref and the index
\* as they were.
C20_RefusedCommitChangesNothing ==
    [][ (/\ last'.cmd = "commit"
         /\ steps' = steps + 1
         /\ (index = <<>> \/ ~user.name \/ ~user.email)) =>
            /\ last'.exit # 0
            /\ HEAD' = HEAD
            /\ refs' = refs
            /\ index' = index
      ]_vars

\* C20 witness: a commit was refused for the missing identity alone, the
\* index holding a staged file.
C20_Witness ==
    /\ last.cmd = "commit"
    /\ last.exit # 0
    /\ index # <<>>
    /\ ~(user.name /\ user.email)

---------------------------------------------------------------------------
(* Claims on the preconditions of merge *)

\* C21: a merge started while the working tree is dirty (staged changes, a
\* modified tracked file or a missing tracked file) fails and changes
\* neither the index, the working files nor any ref.
C21_DirtyMergeRefused ==
    [][ (/\ last'.cmd = "merge"
         /\ steps' = steps + 1
         /\ ~CleanTree) =>
            /\ last'.exit # 0
            /\ index' = index
            /\ wd' = wd
            /\ refs' = refs
            /\ HEAD' = HEAD
      ]_vars

\* C22: .pit/MERGE_HEAD exists exactly while a merge is being resolved: a
\* merge that stops on a conflict writes it with the other side's commit, and
\* it is absent after a merge that succeeded and after the commit that
\* resolves a conflicted merge.
C22_MergeHeadWhileResolving ==
    /\ (last.cmd = "merge" /\ last.res = "conflict") =>
          MERGE_HEAD = get_branch_commit(refs, last.arg)
    /\ (last.cmd = "merge" /\ last.exit = 0) => MERGE_HEAD = NoFile
    /\ (last.cmd = "commit" /\ last.exit = 0) => MERGE_HEAD = NoFile

---------------------------------------------------------------------------
(* Claims on untracked files and branches *)

\* The working files that are not in the index.
Untracked == {p \in Paths : wd[p] # Absent /\ IndexMap(index)[p] = NoBlob}

\* C23: checkout never overwrites an untracked working file.  When the tree
\* of the branch switched to holds a path that is an untracked working file,
\* the switch is refused and the working files stay; untracked files the
\* target tree does not hold are left alone by a switch.
C23_CheckoutKeepsUntracked ==
    [][ (last'.cmd = "checkout" /\ steps' = steps + 1) =>
          /\ \A p \in Untracked : wd'[p] = wd[p]
          /\ (/\ last'.arg \in get_all_branches(refs)
              /\ last'.arg # get_current_branch(HEAD)
              /\ \E p \in Untracked :
                    TreeAt(commits, get_branch_commit(refs, last'.arg))[p] # NoBlob)
                => (last'.exit # 0 /\ wd' = wd /\ HEAD' = HEAD)
      ]_vars

\* C24: creating a branch whose ref file exists fails and leaves that branch
\* at the commit it pointed at; creating a branch that does not exist makes
\* get_branch_commit of it the given commit, and no other ref changes.
C24_CreateBranch ==
    [][ (last'.cmd = "branch" /\ steps' = steps + 1) =>
          LET b == last'.arg
              c == get_head_commit(HEAD, refs)
          IN  /\ refs[b] # NoFile => (last'.exit # 0 /\ refs' = refs)
              /\ (refs[b] = NoFile /\ c # None) =>
                    /\ last'.exit = 0
                    /\ get_branch_commit(refs', b) = c
                    /\ \A o \in Branches \ {b} : refs'[o] = refs[o]
      ]_vars

\* C24 witness: a branch was created at HEAD's commit while another branch
\* points at a different commit.
C24_Witness ==
    /\ last.cmd = "branch"
    /\ last.exit = 0
    /\ refs[last.arg] = get_head_commit(HEAD, refs)
    /\ \E o \in Branches : refs[o] \notin {NoFile, None, refs[last.arg]}

---------------------------------------------------------------------------
(* Claims on the resolution of revisions *)

\* The revision last resolved, and what the repository holds under it.
AskedRef == last.arg
HoldsBranch(ref) == FileOf(refs, ref).content # <<>>
HoldsTag(ref) == FileOf(tags, ref).exists
IsFullHash(ref) == Len(ref) = FullLen /\ \A i \in DOMAIN ref : IsHexChar(ref[i])
IsShortHash(ref) ==
    /\ MinPrefixLen <= Len(ref) /\ Len(ref) < FullLen
    /\ \A i \in DOMAIN ref : IsHexChar(ref[i])

\* C25: a revision is resolved by the first of these that applies: the
\* literal HEAD in any letter case, a branch name, a tag name, a full
\* 40-hex hash, a hex prefix.  A name that is both a branch and a tag gives
\* the branch's commit, and a later step never answers for an earlier one.
C25_ResolutionOrder ==
    last.cmd = "resolve" =>
        IF UpperText(AskedRef) = Text_HEAD
        THEN last.res = (IF HEAD.hash = <<>> THEN Unresolved ELSE Resolved(HEAD.hash))
        ELSE IF HoldsBranch(AskedRef)
        THEN last.res = Resolved(refs[AskedRef].content)
        ELSE IF HoldsTag(AskedRef)
        THEN last.res = Resolved(tags[AskedRef].content)
        ELSE IF IsFullHash(AskedRef)
        THEN last.res = Resolved(LowerText(AskedRef))
        ELSE IF IsShortHash(AskedRef)
        THEN last.res.status = "resolved" => StartsWith(last.res.hash, LowerText(AskedRef))
        ELSE last.res = Unresolved

\* C25 witness: a name that is a branch, a tag and a short hash of a stored
\* object was resolved to the branch's commit.
C25_Witness ==
    /\ last.cmd = "resolve"
    /\ AskedRef = Text_abcd
    /\ HoldsBranch(AskedRef) /\ HoldsTag(AskedRef)
    /\ PrefixMatches(objects, AskedRef) # {}
    /\ last.res = Resolved(HashC)

\* The commit objects whose name starts with the revision asked for.
CommitsWithPrefix ==
    {f.name : f \in {g \in objects :
                         /\ StartsWith(g.name, LowerText(AskedRef))
                         /\ read_object_bytes(objects, g.name).type = "commit"}}

\* C26: a 4-to-39 character hex prefix resolves to the one commit object
\* whose hash starts with it, commit objects only: blobs and trees with the
\* prefix do not make it ambiguous, two or more commits with it are an
\* error, and a prefix of non-commit objects only does not resolve to them.
C26_PrefixAmongCommits ==
    (/\ last.cmd = "resolve"
     /\ UpperText(AskedRef) # Text_HEAD
     /\ ~HoldsBranch(AskedRef) /\ ~HoldsTag(AskedRef)
     /\ IsShortHash(AskedRef)) =>
        IF Cardinality(CommitsWithPrefix) = 1
        THEN last.res = Resolved(CHOOSE h \in CommitsWithPrefix : TRUE)
        ELSE IF Cardinality(CommitsWithPrefix) > 1
        THEN last.res = Ambiguous
        ELSE last.res.status # "resolved"

---------------------------------------------------------------------------
(* Claims on reset *)

\* C27: reset of a path removes exactly that path from the index, whatever
\* command wrote its entry, keeps every other entry as it was, and leaves
\* the working tree alone.
C27_ResetRemovesListed ==
    [][ (/\ last'.cmd = "reset"
         /\ steps' = steps + 1) =>
            /\ index' = SelectSeq(index, LAMBDA l : l.path # last'.arg)
            /\ wd' = wd
      ]_vars

---------------------------------------------------------------------------
(* Claims on clean *)

\* C28: clean deletes only working-tree files that are neither in the index
\* nor ignored, also inside a directory it removes with -d, and nothing
\* under .pit; without -f, and with -n, it deletes nothing.
C28_CleanDeletesOnlyUntracked ==
    [][ (/\ last'.cmd = "clean"
         /\ steps' = steps + 1) =>
            /\ wd'.files \subseteq wd.files
            /\ \A f \in wd.files \ wd'.files :
                  /\ f \notin DOMAIN read_index(index)
                  /\ ~is_ignored(f, get_ignored_patterns(wd))
                  /\ f[1] # DotPit
            /\ (~last'.arg.f \/ last'.arg.n) => wd' = wd
      ]_vars

---------------------------------------------------------------------------
(* Claims on the form of the index file *)

IndexWriters == {"add", "checkout", "merge", "revert", "stash", "rebase"}

\* C29: a command that writes .pit/index emits only four-field lines, in
\* the order of their paths; the two-field form is never written.
C29_IndexWrittenInFourFields ==
    [][ (/\ last'.cmd \in IndexWriters
         /\ steps' = steps + 1
         /\ index' # index) =>
            /\ \A i \in DOMAIN index' : index'[i].stat # Legacy
            /\ \A i, j \in DOMAIN index' :
                  i < j => PathRank(index'[i].path) < PathRank(index'[j].path)
      ]_vars

---------------------------------------------------------------------------
(* Claims on concurrent access to the object store *)

\* C30: a process that reads an object while another process writes it
\* finds no file or the whole object, never an empty or half-written
\* file, also when the object was there before the write.
C30_ReaderSeesWholeObject ==
    last.cmd = "read_object" =>
        \/ last.res = NotFound
        \/ \E d \in RaceData :
              /\ last.arg = sha1(d)
              /\ last.res = ParseObject(d, FirstNul(d))

---------------------------------------------------------------------------
(* Claims on the preconditions of rebase *)

\* C31: a rebase started while the state directory exists fails with the
\* rebase-in-progress condition and leaves head-name, orig-head and the
\* commits file as they are; --continue and --abort without a state
\* directory fail and change nothing.
C31_RebaseStateGuards ==
    [][ (steps' = steps + 1) =>
            /\ (last'.cmd = "rebase" /\ rebase.active) =>
                  /\ last'.exit # 0
                  /\ last'.res = "rebase in progress"
                  /\ rebase' = rebase
            /\ (last'.cmd \in {"rebase --continue", "rebase --abort"} /\ ~rebase.active) =>
                  /\ last'.exit # 0
                  /\ UNCHANGED <<HEAD, refs, index, wd, commits, rebase>>
      ]_vars

---------------------------------------------------------------------------
(* Claims on the result of a branch switch *)

\* C32: after a successful branch switch from a clean tree the index maps
\* exactly the target tree's paths to its blobs, each of those paths holds
\* the target blob on disk, each path of the previous tree that the target
\* lacks is gone from disk, and a file of neither tree is as it was.
C32_SwitchInstallsTargetTree ==
    [][ (/\ last'.cmd \in {"checkout", "checkout -b"}
         /\ last'.res = "switched"
         /\ steps' = steps + 1
         /\ CleanTree) =>
            LET previous == TreeAt(commits, get_head_commit(HEAD, refs))
                target == TreeAt(commits', get_head_commit(HEAD', refs'))
            IN  /\ IndexMap(index') = target
                /\ \A i, j \in DOMAIN index' : index'[i].path = index'[j].path => i = j
                /\ \A p \in Paths :
                      /\ target[p] # NoBlob =>
                            wd'[p] # Absent /\ hash_object(wd'[p]) = target[p]
                      /\ (previous[p] # NoBlob /\ target[p] = NoBlob) => wd'[p] = Absent
                      /\ (previous[p] = NoBlob /\ target[p] = NoBlob) => wd'[p] = wd[p]
      ]_vars

\* C32 witness: a switch to feature, whose tree differs from master's, has
\* installed feature's tree, with a file of master's tree removed or a
\* file of feature's tree written.
C32_Witness ==
    /\ last.cmd = "checkout"
    /\ last.res = "switched"
    /\ last.arg = "feature"
    /\ refs["master"] \in DOMAIN commits
    /\ LET target == TreeAt(commits, get_head_commit(HEAD, refs))
           previous == TreeAt(commits, refs["master"])
       IN  /\ IndexMap(index) = target
           /\ \E p \in Paths : previous[p] # target[p]
           /\ \E p \in Paths : previous[p] # NoBlob /\ target[p] = NoBlob /\ wd[p] = Absent

---------------------------------------------------------------------------
(* Claims on the nearest common ancestor *)

\* The commits that are ancestors of both arguments of the last search.
CommonAncestors ==
    AncestorsUpTo(commits, {last.arg[1]}) \cap AncestorsUpTo(commits, {last.arg[2]})

\* C33: when the two commits have several common ancestors, the one the
\* search returns is a nearest one: no other common ancestor is a proper
\* descendant of it.
C33_LcaIsNearest ==
    (last.cmd = "lca" /\ last.res # None) =>
        \A c \in CommonAncestors \ {last.res} :
            last.res \notin AncestorsUpTo(commits, {c})

---------------------------------------------------------------------------
(* Claims on the commits a rebase replays *)

\* C34: the list of commits to replay holds exactly the commits with at
\* most one parent that are reachable from HEAD and not from the upstream,
\* each once, every commit after those of its parents that are in the list.
C34_ReplayList ==
    last.cmd = "collect" =>
        LET head == last.arg[1]
            upstream == last.arg[2]
            list == last.res
            wanted == {c \in AncestorsUpTo(commits, {head}) \ AncestorsUpTo(commits, {upstream}) :
                          Len(commits[c].parents) <= 1}
        IN  /\ Range(list) = wanted
            /\ Len(list) = Cardinality(wanted)
            /\ \A i, j \in DOMAIN list :
                  list[i] \in Range(commits[list[j]].parents) => i < j

\* C34 witness: a list of two commits, parent and child, was collected from
\* a history whose tip is a merge commit that the list leaves out.
C34_Witness ==
    /\ last.cmd = "collect"
    /\ Len(last.res) = 2
    /\ last.res[1] \in Range(commits[last.res[2]].parents)
    /\ Len(commits[last.arg[1]].parents) = 2
    /\ last.arg[1] \notin AncestorsUpTo(commits, {last.arg[2]})

---------------------------------------------------------------------------
(* Claims on what recording a commit moves *)

Recorders == {"commit", "merge", "cherry-pick", "revert"}
NewCommit == Len(commits) + 1

\* C35: a command that records a commit moves the current branch's ref and
\* nothing else when HEAD is attached, HEAD's text staying as it is, and
\* moves HEAD alone when it is detached; no other branch and no tag changes.
\* The commits a rebase replays go on HEAD as the replay finds it, detached
\* unless the user attached it in between, and the only other ref a rebase
\* moves is the rebased branch, when it finishes.
C35_CommitMovesCurrentRefOnly ==
    [][ (steps' = steps + 1 /\ Len(commits') > Len(commits)) =>
          /\ last'.cmd \in Recorders =>
                /\ tags' = tags
                /\ IF get_current_branch(HEAD) # ""
                   THEN /\ HEAD' = HEAD
                        /\ refs' = [refs EXCEPT ![get_current_branch(HEAD)] = NewCommit]
                   ELSE /\ refs' = refs
                        /\ HEAD' = Detached(NewCommit)
          /\ last'.cmd \in {"rebase", "rebase --continue"} =>
                LET recording == IF last'.cmd = "rebase" THEN "" ELSE get_current_branch(HEAD)
                    rebased == IF last'.cmd = "rebase" THEN get_current_branch(HEAD)
                               ELSE rebase.headName
                IN  /\ tags' = tags
                    /\ (rebase'.active /\ recording = "") =>
                          (refs' = refs /\ HEAD' = Detached(Len(commits')))
                    /\ \A b \in Branches :
                          refs'[b] # refs[b] =>
                              \/ b = recording
                              \/ ~rebase'.active /\ b = rebased
      ]_vars

\* C35 witness: a commit was recorded on a detached HEAD, which now names
\* it, while the branch being rebased still holds the commit it had.
C35_Witness ==
    /\ last.cmd \in Recorders
    /\ last.exit = 0
    /\ HEAD = Detached(Len(commits))
    /\ rebase.active
    /\ refs[rebase.headName] = rebase.origHead

---------------------------------------------------------------------------
(* Claims on the readers of the index *)

\* C36: every reader of .pit/index derives the same path -> hash map from
\* the file, for four-field lines and for two-field lines: the dict of
\* load_index (checkout, merge, revert, reset) has the paths of the dict of
\* read_index (commit, status, stash, clean, add) as its keys, with the
\* same hashes, on the index file any command has left.
C36_ReadersAgree ==
    [][ (steps' = steps + 1 /\ last'.cmd \in {"add", "checkout", "merge", "revert"}) =>
            LET by_split == load_index(index')
                by_fields == read_index_hashes(index')
            IN  /\ DOMAIN by_split = {PlainKey(p) : p \in DOMAIN by_fields}
                /\ \A p \in DOMAIN by_fields : by_split[PlainKey(p)] = by_fields[p]
      ]_vars

---------------------------------------------------------------------------
(* Claims on an interrupted rebase *)

\* C37: a rebase has written head-name, orig-head and commits before it
\* first changes the working files, the index or HEAD, so that after an
\* interruption at any later point rebase --abort brings the repository
\* back to orig-head, HEAD attached to head-name: the branch at orig-head,
\* the index and the files of orig-head's tree equal to that tree.
C37_AbortAfterInterruption ==
    [][ /\ (steps' = steps + 1 /\ last'.cmd = "rebase" /\ last'.res = "interrupted") =>
              /\ rebase'.active
              /\ rebase'.headName = get_current_branch(HEAD)
              /\ rebase'.origHead = get_head_commit(HEAD, refs)
        /\ (steps' = steps + 1 /\ last.res = "interrupted" /\ last'.cmd = "rebase --abort") =>
              LET tree == TreeAt(commits, rebase.origHead)
              IN  /\ HEAD' = Attached(rebase.headName)
                  /\ get_branch_commit(refs', rebase.headName) = rebase.origHead
                  /\ rebase' = NoRebase
                  /\ IndexMap(index') = tree
                  /\ \A p \in Paths : tree[p] # NoBlob => wd'[p] = read_object(tree[p])
      ]_vars

\* C38: while a rebase is in progress the rebased branch still points at
\* orig-head, and a step moves that branch only when it finishes the
\* rebase, to the commit HEAD has reached.
C38_BranchHeldUntilFinish ==
    [][ /\ rebase'.active => get_branch_commit(refs', rebase'.headName) = rebase'.origHead
        /\ (rebase.active /\ refs'[rebase.headName] # refs[rebase.headName]) =>
              /\ ~rebase'.active
              /\ last'.res = "rebased"
              /\ refs'[rebase.headName] = get_head_commit(HEAD', refs')
      ]_vars

\* The commit k first-parent steps below c, None where the chain ends.
RECURSIVE NthParent(_, _, _)
NthParent(cs, c, k) ==
    IF c = None \/ k = 0 THEN c
    ELSE NthParent(cs, _get_commit_data(cs, c).parent, k - 1)

C40_LcaFindsWhenThereIsOne ==
    last.cmd = "lca" =>
        /\ (last.res = None) <=> (CommonAncestors = {})
        /\ last.res # None => last.res \in CommonAncestors

\* C40 witness: a search between two commits, neither an ancestor of the
\* other, that have two common ancestors or more, has answered one of them.
C40_Witness ==
    /\ last.cmd = "lca"
    /\ last.arg[1] \notin AncestorsUpTo(commits, {last.arg[2]})
    /\ last.arg[2] \notin AncestorsUpTo(commits, {last.arg[1]})
    /\ Cardinality(CommonAncestors) >= 2
    /\ last.res \in CommonAncestors

====================================================================
